---- MODULE Spec2Model ----
(***************************************************************************)
(* Warehouse AI: the capability registry (AgentRegistry), the intent       *)
(* classifier (classifyQueryLLM / fallbackClassification) and the query    *)
(* orchestrator (WarehouseAIOrchestrator.processQuery), modelled as state  *)
(* machines over the JavaScript event loop: one action is one run of code  *)
(* between two suspension points (await), so that nothing can interleave   *)
(* inside an action and anything can interleave between two of them.       *)
(***************************************************************************)
EXTENDS Integers, Sequences, FiniteSets, TLC

\* ------------------------------------------------------------------ bounds
MaxTime   == 1     \* the clock stops advancing here
MaxStarts == 1     \* start() calls of the registry in one behaviour
MaxCycles == 1     \* refresh cycles in flight at the same time
MaxTicks == 2      \* refresh cycles in flight at the same time, when they overlap
MaxReads  == 1     \* getAllAgents()/getHealthyAgents() results a client keeps
MaxReqs   == 1     \* POST /query requests while the registry refreshes and stops
MaxOverlap == 2    \* POST /query requests that overlap
MaxAgents == 3     \* entries of a registry the queries are asked on

\* ------------------------------------------------------------ value domains
NoStr == "<not-a-string>"          \* a field whose typeof is not 'string'
NoArr == <<"<not-an-array>">>      \* a field for which Array.isArray is false

IsString(v) == v # NoStr
IsArray(v)  == v # NoArr

AgentIds == {"a1", "a2"}
LocationAgentId == "location-agent-001"

\* A manifest as getManifest() or GET /manifest delivers it.  kind is what
\* typeof says of the value, isNull tells null from an object.
Manifest(id, st, tl) ==
  [kind |-> "object", isNull |-> FALSE, agentId |-> id, name |-> "n",
   description |-> "d", version |-> "v", tools |-> tl,
   capabilities |-> <<"c">>, expertise |-> <<"e">>, status |-> st]

BaseManifest == Manifest("a1", "healthy", <<"t1">>)

\* a manifest of the required shape that names one tool twice
DuplicateToolManifest == Manifest("a1", "healthy", <<"t1", "t1">>)

ValidManifests ==
  { Manifest(id, st, <<"t1">>) : id \in AgentIds, st \in {"healthy", "unhealthy"} }
  \cup { DuplicateToolManifest }

\* one required field of the wrong shape at a time, null, undefined
BrokenManifests ==
  { [BaseManifest EXCEPT !.agentId = NoStr],
    [BaseManifest EXCEPT !.name = NoStr],
    [BaseManifest EXCEPT !.description = NoStr],
    [BaseManifest EXCEPT !.version = NoStr],
    [BaseManifest EXCEPT !.tools = NoArr],
    [BaseManifest EXCEPT !.capabilities = NoArr],
    [BaseManifest EXCEPT !.expertise = NoArr],
    [BaseManifest EXCEPT !.isNull = TRUE],
    [BaseManifest EXCEPT !.kind = "undefined"] }

Threw == [kind |-> "threw"]        \* the retrieval raised instead of returning

\* AgentRegistry.validateManifest: "ok", "invalid", or "threw" (a property
\* read on null raises a TypeError)
validateManifest(m) ==
  IF m.kind # "object" THEN "invalid"
  ELSE IF m.isNull THEN "threw"
  ELSE IF /\ IsString(m.agentId) /\ IsString(m.name)
          /\ IsString(m.description) /\ IsString(m.version)
          /\ IsArray(m.tools) /\ IsArray(m.capabilities)
          /\ IsArray(m.expertise)
       THEN "ok" ELSE "invalid"

\* ------------------------------------------------------------ configuration
\* AgentDiscoveryConfig.agents: inst is the local instance ("none" when the
\* entry has none), endpoint tells whether a remote endpoint is configured.
Cfg(id, inst, ep) == [agentId |-> id, inst |-> inst, endpoint |-> ep]

\* the configuration the orchestrator's constructor passes to its registry
OrchConfig == << Cfg(LocationAgentId, "locationAgent", FALSE) >>

Configs ==
  { << Cfg("a1", "mock", FALSE), Cfg("a2", "mock", FALSE) >>,
    << Cfg("a1", "none", TRUE),  Cfg("a2", "mock", FALSE) >>,
    << Cfg("a1", "mock", FALSE), Cfg("a2", "none", TRUE) >>,
    << Cfg("a1", "none", FALSE), Cfg("a2", "mock", FALSE) >> }

VARIABLES
  config,        \* AgentRegistry.config.agents
  now,           \* the clock read by new Date()
  agents,        \* AgentRegistry.agents: the Map's entries, in insertion order
  refreshTimer,  \* AgentRegistry.refreshTimer (0: undefined)
  timers,        \* the intervals setInterval created and nobody cleared
  nTimers,       \* intervals created so far
  nStarts,       \* start() calls so far
  starts,        \* the start() calls in flight: where each one is
  stops,         \* stop() calls so far: 0, 1, or 2 for two and more
  cycles,        \* the refreshAgents() runs in flight
  reads,         \* arrays a client got from getAllAgents()/getHealthyAgents()
  recovered      \* a probe has set healthy again an entry that a probe had failed

regVars == << config, now, agents, refreshTimer, timers, nTimers,
              nStarts, starts, stops, cycles, reads, recovered >>

VARIABLES
  isRunning,     \* LocationAgentServer.isRunning
  mcpReady,      \* LocationAgentServer.mcpReady
  memories,      \* LocationAgentServer.conversations: the sessions it has a memory of
  llmMode,       \* an API key is configured and NODE_ENV is not 'test'
  conversations, \* WarehouseAIOrchestrator.conversations: sessionId -> context
  reqs           \* the POST /query requests, in order of arrival

orchVars == << isRunning, mcpReady, memories, llmMode, conversations, reqs >>

VARIABLES
  call           \* the last query made on the registry or the classifier, with its result

NoCall == [fn |-> "none"]

vars == << regVars, orchVars, call >>

\* --------------------------------------------------------------- the Map
\* agents is the sequence of the Map's values in insertion order; each value
\* carries its key and ref, the identity of the entry object.  An object the
\* Map no longer holds is not part of the state: no read of the registry
\* reaches it, so a write to it changes nothing.
KeyIndex(ags, k) ==
  IF \E j \in 1..Len(ags) : ags[j].key = k
  THEN CHOOSE j \in 1..Len(ags) : ags[j].key = k
  ELSE 0

RefIndex(ags, r) ==
  IF \E j \in 1..Len(ags) : ags[j].ref = r
  THEN CHOOSE j \in 1..Len(ags) : ags[j].ref = r
  ELSE 0

\* Map.set: a key that is present keeps its position and gets the new value
MapSet(ags, e) ==
  IF KeyIndex(ags, e.key) = 0 THEN Append(ags, e)
  ELSE [ags EXCEPT ![KeyIndex(ags, e.key)] = e]

Keys(ags) == { ags[j].key : j \in 1..Len(ags) }

RemoveAt(q, k) == [j \in 1..(Len(q) - 1) |-> IF j < k THEN q[j] ELSE q[j + 1]]

\* ------------------------------------------------------------- discovery
Outcomes == ValidManifests \cup BrokenManifests \cup {Threw}

\* mcpServer.getAllTools(): the nine tools startMCPServer registers
McpTools ==
  << "find_product_locations", "get_inventory_by_area",
     "analyze_space_utilization", "check_expiration_dates",
     "find_by_license_plate", "find_by_pallet_id", "find_by_location",
     "inventory_status_search", "quantity_analysis" >>

\* agentCard.capabilities and agentCard.expertise of the location agent
CardCapabilities ==
  << "Natural language query processing",
     "Multi-turn conversation memory",
     "Complex query decomposition",
     "Parallel tool execution",
     "Contextual reasoning",
     "Recommendation generation" >>

CardExpertise ==
  << "Product location queries",
     "Space utilization analysis",
     "Inventory status management",
     "Expiration date monitoring",
     "Multi-criteria warehouse searches" >>

\* LocationAgentServer.healthCheck().status, and the status of its manifest
locationStatus == IF isRunning /\ mcpReady THEN "healthy" ELSE "unhealthy"

\* LocationAgentServer.getManifest
getManifest ==
  [Manifest(LocationAgentId, locationStatus, IF mcpReady THEN McpTools ELSE << >>)
     EXCEPT !.capabilities = CardCapabilities, !.expertise = CardExpertise]

\* what retrieving the manifest of one configured agent can deliver: the
\* location agent's own manifest, anything at all for another instance or
\* a remote endpoint
ManifestOutcomes(c) == IF c.inst = "locationAgent" THEN {getManifest} ELSE Outcomes

\* the entry discoverAgents builds from a validated manifest (discoveredAt,
\* which is written here and read nowhere, is left out)
NewEntry(m, c, t, r) ==
  [key |-> m.agentId, ref |-> r,
   agentId |-> m.agentId, name |-> m.name, description |-> m.description,
   version |-> m.version, tools |-> m.tools, capabilities |-> m.capabilities,
   expertise |-> m.expertise, status |-> m.status,
   endpoint |-> c.endpoint, lastHealthCheck |-> t,
   healthy |-> (m.status = "healthy")]

\* what the environment delivered for one configured agent, for the record:
\* the agentId of a manifest that was obtained and is of the required shape
\* (every required field present with its type), "-" for anything else
Delivered(o) ==
  IF /\ o.kind = "object" /\ ~o.isNull
     /\ NoStr \notin {o.agentId, o.name, o.description, o.version}
     /\ NoArr \notin {o.tools, o.capabilities, o.expertise}
  THEN o.agentId ELSE "-"

\* The identity of a new entry object: a reference that nothing holds (the
\* Map, a refresh cycle in flight, an array a caller keeps).
Held(ags) ==
  { ags[j].ref : j \in 1..Len(ags) } \cup { cycles[k].ref : k \in 1..Len(cycles) }
  \cup UNION { { reads[k][j] : j \in 1..Len(reads[k]) } : k \in 1..Len(reads) }

NewRef(ags) == CHOOSE r \in 1..(Cardinality(Held(ags)) + 1) :
                 r \notin Held(ags) /\ \A q \in 1..(r - 1) : q \in Held(ags)

\* discoverAgents when one agent's retrieval or validation raised: without
\* the try/catch inside the loop the exception leaves the loop and start()
discoverFailedAbort(st) == [st EXCEPT !.threw = TRUE]

\* discoverAgents when one agent's retrieval or validation raised: the catch
\* inside the loop logs, and the loop goes on
discoverFailed(st) == st

\* the body of one iteration of discoverAgents' loop, given what the
\* retrieval delivered: st = [agents, seen, at, threw]
DiscoverOne(st, c, o, t) ==
  LET seen == Append(st.seen, Delivered(o)) IN
  IF o = Threw \/ validateManifest(o) = "threw"
  THEN discoverFailed([st EXCEPT !.seen = seen])
  ELSE IF validateManifest(o) = "invalid"
  THEN [st EXCEPT !.seen = seen]                     \* continue
  ELSE [st EXCEPT !.seen = seen,
                  !.agents = MapSet(st.agents, NewEntry(o, c, t, NewRef(st.agents)))]

\* discoverAgents from configuration index i on, up to the first await: the
\* manifest of a local instance is read synchronously (outs[i] is what it
\* returns), that of a remote agent is awaited.  at = 0: the loop is over.
RECURSIVE DiscoverFrom(_, _, _, _, _)
DiscoverFrom(cf, i, st, outs, t) ==
  IF st.threw \/ i > Len(cf) THEN [st EXCEPT !.at = 0]
  ELSE IF cf[i].inst = "none" /\ cf[i].endpoint THEN [st EXCEPT !.at = i]
  ELSE IF cf[i].inst = "none"
       THEN DiscoverFrom(cf, i + 1, DiscoverOne(st, cf[i], Threw, t), outs, t)
  ELSE DiscoverFrom(cf, i + 1, DiscoverOne(st, cf[i], outs[i], t), outs, t)

\* what the local instances read from index i on return, one choice each
\* (the indices that are not read synchronously get no choice)
OutsFor(cf, i) ==
  { f \in [1..Len(cf) -> Outcomes \cup {getManifest}] :
      \A j \in 1..Len(cf) :
        IF j >= i /\ cf[j].inst # "none" THEN f[j] \in ManifestOutcomes(cf[j])
        ELSE f[j] = Threw }

\* where start() is after a run of discoverAgents: awaiting a manifest, about
\* to set the interval, or left by an exception
startPc(r) == IF r.threw THEN "threw" ELSE IF r.at = 0 THEN "settimer" ELSE "fetch"

\* alone: no other start() or stop() ran between this start()'s call and now;
\* stopped: stop() has returned while this start() was waiting, and start()
\* has not been called since
Disturbed(s, byStop) == [s EXCEPT !.alone = FALSE, !.stopped = byStop]

\* AgentRegistry.start up to its first await
StartCall ==
  /\ nStarts < MaxStarts
  /\ nStarts' = nStarts + 1
  /\ \E outs \in OutsFor(config, 1) :
       LET r == DiscoverFrom(config, 1,
                  [agents |-> agents, seen |-> <<>>, at |-> 0, threw |-> FALSE],
                  outs, now)
           fresh == agents = <<>> /\ starts = <<>>
       IN /\ agents' = r.agents
          /\ starts' = Append(
               [q \in 1..Len(starts) |-> Disturbed(starts[q], FALSE)],
               [pc |-> startPc(r), at |-> r.at,
                seen |-> r.seen, alone |-> fresh, stopped |-> FALSE])
  /\ UNCHANGED << config, now, refreshTimer, timers, nTimers, stops, cycles, reads, recovered,
                  orchVars, call >>

\* the awaited manifest of the remote agent arrives (or the request fails);
\* the loop goes on to the next await
StartFetched(p) ==
  /\ p \in 1..Len(starts) /\ starts[p].pc = "fetch"
  /\ \E o \in Outcomes, outs \in OutsFor(config, starts[p].at + 1) :
       LET i == starts[p].at
           one == DiscoverOne([agents |-> agents,
                               seen |-> starts[p].seen, at |-> 0,
                               threw |-> FALSE],
                              config[i], o, now)
           r == DiscoverFrom(config, i + 1, one, outs, now)
       IN /\ agents' = r.agents
          /\ starts' = [starts EXCEPT ![p].pc = startPc(r),
                                      ![p].at = r.at, ![p].seen = r.seen]
  /\ UNCHANGED << config, now, refreshTimer, timers, nTimers, nStarts, stops, cycles, reads, recovered,
                  orchVars, call >>

\* start() after 'await this.discoverAgents()': setInterval, then it returns
StartFinish(p) ==
  /\ p \in 1..Len(starts) /\ starts[p].pc = "settimer"
  /\ nTimers' = nTimers + 1
  /\ refreshTimer' = nTimers + 1
  /\ timers' = timers \cup {nTimers + 1}
  /\ starts' = RemoveAt(starts, p)
  /\ UNCHANGED << config, now, agents, nStarts, stops, cycles, reads, recovered,
                  orchVars, call >>

\* --------------------------------------------------------------- refresh
FirstConfig(cf, k) ==
  IF \E i \in 1..Len(cf) : cf[i].agentId = k
  THEN CHOOSE i \in 1..Len(cf) :
         cf[i].agentId = k /\ \A j \in 1..(i - 1) : cf[j].agentId # k
  ELSE 0

HasInstance(cf, k) == FirstConfig(cf, k) # 0 /\ cf[FirstConfig(cf, k)].inst # "none"

ProbeOutcomes == {"healthy", "unhealthy", "threw"}

\* applyProbe with a catch block that only logs
applyProbeCatchLogs(e, o, t) ==
  IF o = "threw" THEN e
  ELSE [e EXCEPT !.healthy = (o = "healthy"), !.lastHealthCheck = t]

\* what refreshAgents does to the entry with the outcome of its awaited probe
applyProbe(e, o, t) ==
  IF o = "threw"
  THEN [e EXCEPT !.healthy = FALSE]                                  \* catch
  ELSE [e EXCEPT !.healthy = (o = "healthy"), !.lastHealthCheck = t]

\* an entry with neither a local instance nor an endpoint: no probe at all
applyNoProbe(e, t) == [e EXCEPT !.healthy = FALSE, !.lastHealthCheck = t]

\* probed with a failure handler that marks every entry unhealthy
probedFailsAll(ags, r, o, t) ==
  [j \in 1..Len(ags) |->
     IF ags[j].ref = r THEN applyProbe(ags[j], o, t)
     ELSE IF o = "healthy" THEN ags[j] ELSE [ags[j] EXCEPT !.healthy = FALSE]]

\* the Map after refreshAgents handled the probe of the entry object r
\* (all entries but r's are left alone)
probed(ags, r, o, t) ==
  [j \in 1..Len(ags) |-> IF ags[j].ref = r THEN applyProbe(ags[j], o, t) ELSE ags[j]]

\* what the probe issued for key k will report, as far as the call decides
\* it: healthCheck() of the location agent computes its status when called;
\* another instance or a remote endpoint answers what it likes ("env")
probeAtCall(cf, k) ==
  IF HasInstance(cf, k) /\ cf[FirstConfig(cf, k)].inst = "locationAgent"
  THEN locationStatus ELSE "env"

\* refreshAgents from the entry after position pos on, up to the next await:
\* [agents, at, ref, res]; at = 0: the iteration is over.
RECURSIVE RefreshFrom(_, _, _, _)
RefreshFrom(cf, ags, pos, t) ==
  IF pos + 1 > Len(ags) THEN [agents |-> ags, at |-> 0, ref |-> 0, res |-> "env"]
  ELSE LET e == ags[pos + 1] IN
       IF HasInstance(cf, e.key) \/ e.endpoint
       THEN [agents |-> ags, at |-> pos + 1, ref |-> e.ref,
             res |-> probeAtCall(cf, e.key)]
       ELSE RefreshFrom(cf, [ags EXCEPT ![pos + 1] = applyNoProbe(e, t)], pos + 1, t)

\* the place of a probe of the entry object r that starts now among the
\* probes of r that are still in flight (1: none is)
rankFor(cs, r) ==
  LET ranks == { cs[j].rank : j \in { x \in 1..Len(cs) : cs[x].ref = r } }
  IN IF ranks = {} THEN 1
     ELSE 1 + CHOOSE m \in ranks : \A x \in ranks : x <= m

\* the probe of cycle k has ended: the probes of the same entry object that
\* were started before it and are still in flight are now out of date
markStale(cs, k) ==
  [j \in 1..Len(cs) |->
     IF j # k /\ cs[j].ref = cs[k].ref /\ cs[j].rank < cs[k].rank
     THEN [cs[j] EXCEPT !.stale = TRUE] ELSE cs[j]]

\* only the order of the ranks matters: they are kept as 1, 2, ... among the
\* probes of one entry object
compactRanks(cs) ==
  [j \in 1..Len(cs) |->
     [cs[j] EXCEPT !.rank =
        Cardinality({ x \in 1..Len(cs) : cs[x].ref = cs[j].ref /\ cs[x].rank <= cs[j].rank })]]

\* the interval fires: refreshAgents() runs up to its first await
TimerTick(tm, max) ==
  /\ tm \in timers
  /\ Len(cycles) < max
  /\ LET r == RefreshFrom(config, agents, 0, now) IN
       /\ agents' = r.agents
       /\ cycles' = IF r.at = 0 THEN cycles
                    ELSE Append(cycles, [at |-> r.at, ref |-> r.ref, res |-> r.res,
                                         rank |-> rankFor(cycles, r.ref),
                                         stale |-> FALSE])
  /\ UNCHANGED << config, now, refreshTimer, timers, nTimers, nStarts,
                  starts, stops, reads, recovered,
                  orchVars, call >>

\* the Map and the cycle after the awaited probe of cycle c ended with o
ProbeResult(c, o) == RefreshFrom(config, probed(agents, c.ref, o, now), c.at, now)

\* the entry object r is in the Map, was registered healthy and is unhealthy
FailedByProbe(ags, r) ==
  \E j \in 1..Len(ags) : ags[j].ref = r /\ ags[j].status = "healthy" /\ ~ags[j].healthy

ProbeDone(k, o) ==
  /\ k \in 1..Len(cycles)
  /\ cycles[k].res \in {"env", o}
  /\ LET r == ProbeResult(cycles[k], o) IN
       /\ agents' = r.agents
       /\ cycles' = compactRanks(
                      IF r.at = 0 THEN RemoveAt(markStale(cycles, k), k)
                      ELSE [markStale(cycles, k) EXCEPT ![k] =
                              [at |-> r.at, ref |-> r.ref, res |-> r.res,
                               rank |-> rankFor(RemoveAt(cycles, k), r.ref),
                               stale |-> FALSE]])
  /\ recovered' = (recovered \/ (o = "healthy" /\ FailedByProbe(agents, cycles[k].ref)))
  /\ UNCHANGED << config, now, refreshTimer, timers, nTimers, nStarts,
                  starts, stops, reads,
                  orchVars, call >>

\* ------------------------------------------------------------------ stop
\* stop() that returns at once when no interval is set
stopAgentsIfStarted(ags, tm) == IF tm = 0 THEN ags ELSE << >>

\* this.agents.clear()
stopAgents(ags, tm) == << >>

\* if (this.refreshTimer) clearInterval(this.refreshTimer)
stopTimers(ts, tm) == IF tm # 0 THEN ts \ {tm} ELSE ts

\* Map.clear() empties the entry list under every live iterator: a cycle in
\* flight finds, when it resumes, only what was inserted after the clear.
Stop ==
  /\ stops' = IF stops < 2 THEN stops + 1 ELSE stops
  /\ timers' = stopTimers(timers, refreshTimer)
  /\ agents' = stopAgents(agents, refreshTimer)
  /\ cycles' = [k \in 1..Len(cycles) |->
                  IF agents' = << >> THEN [cycles[k] EXCEPT !.at = 0] ELSE cycles[k]]
  /\ starts' = [q \in 1..Len(starts) |-> Disturbed(starts[q], TRUE)]
  /\ UNCHANGED << config, now, refreshTimer, nTimers, nStarts, reads, recovered,
                  orchVars, call >>

\* ----------------------------------------------------------------- reads
\* getAgent: << entry >>, or << >> for undefined
getAgent(ags, k) == IF KeyIndex(ags, k) = 0 THEN << >> ELSE << ags[KeyIndex(ags, k)] >>

\* Array.from(this.agents.values()): a new array of the same entry objects
getAllAgents(ags) == ags

getHealthyAgents(ags) == SelectSeq(getAllAgents(ags), LAMBDA e : e.healthy)

\* the references an array returned by a read holds
Refs(arr) == [j \in 1..Len(arr) |-> arr[j].ref]

\* a caller keeps the array a read returned
ReadAll ==
  /\ Len(reads) < MaxReads
  /\ reads' = Append(reads, Refs(getAllAgents(agents)))
  /\ UNCHANGED << config, now, agents, refreshTimer, timers, nTimers,
                  nStarts, starts, stops, cycles, recovered,
                  orchVars, call >>

ReadHealthy ==
  /\ Len(reads) < MaxReads
  /\ reads' = Append(reads, Refs(getHealthyAgents(agents)))
  /\ UNCHANGED << config, now, agents, refreshTimer, timers, nTimers,
                  nStarts, starts, stops, cycles, recovered,
                  orchVars, call >>

\* the caller changes the array it holds (pop)
MutateList(k) ==
  /\ k \in 1..Len(reads) /\ reads[k] # << >>
  /\ reads' = [reads EXCEPT ![k] = SubSeq(reads[k], 1, Len(reads[k]) - 1)]
  /\ UNCHANGED << config, now, agents, refreshTimer, timers, nTimers,
                  nStarts, starts, stops, cycles, recovered,
                  orchVars, call >>

\* the caller writes a field of an entry object of the array it holds
MutateEntry(k, j) ==
  /\ k \in 1..Len(reads) /\ j \in 1..Len(reads[k])
  /\ LET i == RefIndex(agents, reads[k][j]) IN
       /\ i # 0
       /\ \/ agents' = [agents EXCEPT ![i].healthy = ~agents[i].healthy]
          \/ /\ agents[i].tools # << >>
             /\ agents' = [agents EXCEPT ![i].tools = << >>]
  /\ UNCHANGED << config, now, refreshTimer, timers, nTimers, nStarts,
                  starts, stops, cycles, reads, recovered,
                  orchVars, call >>

\* ================================================================= text
\* A string is the sequence of its characters.
Upper == << "A", "B", "C", "D", "E", "F", "G", "H", "I", "J", "K", "L", "M",
            "N", "O", "P", "Q", "R", "S", "T", "U", "V", "W", "X", "Y", "Z" >>
Lower == << "a", "b", "c", "d", "e", "f", "g", "h", "i", "j", "k", "l", "m",
            "n", "o", "p", "q", "r", "s", "t", "u", "v", "w", "x", "y", "z" >>
Digits == { "0", "1", "2", "3", "4", "5", "6", "7", "8", "9" }
WordChars == { Upper[i] : i \in 1..26 } \cup { Lower[i] : i \in 1..26 }
             \cup Digits \cup { "_" }

toLowerCase(str) ==
  [i \in 1..Len(str) |->
     IF \E k \in 1..26 : Upper[k] = str[i]
     THEN Lower[CHOOSE k \in 1..26 : Upper[k] = str[i]] ELSE str[i]]

includes(str, sub) ==
  \E i \in 0..(Len(str) - Len(sub)) : SubSeq(str, i + 1, i + Len(sub)) = sub

\* /\b\d{6,}\b/.test(str): six or more digits between two word boundaries
hasLongNumber(str) ==
  \E i \in 1..Len(str), j \in 1..Len(str) :
    /\ j - i + 1 >= 6
    /\ \A k \in i..j : str[k] \in Digits
    /\ (i = 1 \/ str[i - 1] \notin WordChars)
    /\ (j = Len(str) \/ str[j + 1] \notin WordChars)

\* the queries a client sends
QueryTexts ==
  << << "W", "h", "e", "r", "e", " ", "i", "s", " ", "1", "2", "6", "3", "7", "5", "5" >>,
     << "c", "o", "u", "n", "t", " ", "a", " ", "a", "n", "d", " ", "b" >>,
     << >> >>

\* ============================================================ classifier
ClaudeTimeout       == 10   \* setTimeout(..., 10000), in seconds
ConfidenceThreshold == 40   \* classification.confidence < 40
DefaultConfidence   == 50   \* confidence when the model gave none
FallbackConfidence  == 50   \* confidence of the rule-based classification

\* the intent rules with the digit run tested anywhere in the string
fallbackIntentAnyDigits(lower) ==
  IF includes(lower, << "w", "h", "e", "r", "e", " ", "i", "s" >>) \/ (\E i \in 1..(Len(lower) - 5) : \A k \in i..(i + 5) : lower[k] \in Digits)
    THEN "product_location_search"
  ELSE IF includes(lower, << "h", "o", "w", " ", "m", "a", "n", "y" >>) \/ includes(lower, << "c", "o", "u", "n", "t" >>)
    THEN "inventory_count_query"
  ELSE IF includes(lower, << "h", "i", "g", "h", "e", "s", "t" >>) \/ includes(lower, << "m", "o", "s", "t" >>)
    THEN "inventory_ranking_analysis"
  ELSE IF includes(lower, << "s", "u", "m", "m", "a", "r", "y" >>) \/ includes(lower, << "o", "v", "e", "r", "v", "i", "e", "w" >>)
    THEN "comprehensive_summary"
  ELSE IF includes(lower, << "s", "p", "a", "c", "e" >>) THEN "space_analysis"
  ELSE IF includes(lower, << "e", "x", "p", "i", "r", "e" >>) THEN "expiration_check"
  ELSE "general_warehouse_query"

\* the intent rules of fallbackClassification, first match wins
fallbackIntent(lower) ==
  IF includes(lower, << "w", "h", "e", "r", "e", " ", "i", "s" >>) \/ hasLongNumber(lower)
    THEN "product_location_search"
  ELSE IF includes(lower, << "h", "o", "w", " ", "m", "a", "n", "y" >>) \/ includes(lower, << "c", "o", "u", "n", "t" >>)
    THEN "inventory_count_query"
  ELSE IF includes(lower, << "h", "i", "g", "h", "e", "s", "t" >>) \/ includes(lower, << "m", "o", "s", "t" >>)
    THEN "inventory_ranking_analysis"
  ELSE IF includes(lower, << "s", "u", "m", "m", "a", "r", "y" >>) \/ includes(lower, << "o", "v", "e", "r", "v", "i", "e", "w" >>)
    THEN "comprehensive_summary"
  ELSE IF includes(lower, << "s", "p", "a", "c", "e" >>) THEN "space_analysis"
  ELSE IF includes(lower, << "e", "x", "p", "i", "r", "e" >>) THEN "expiration_check"
  ELSE "general_warehouse_query"

\* registry.getHealthyAgents()[0], or the hard-coded default id
fallbackTarget(ags) ==
  IF getHealthyAgents(ags) = << >> THEN LocationAgentId
  ELSE getHealthyAgents(ags)[1].agentId

fallbackClassification(query, ags) ==
  [intent |-> fallbackIntent(toLowerCase(query)),
   confidence |-> FallbackConfidence,
   targetAgent |-> fallbackTarget(ags),
   parameters |-> query,
   complexity |-> IF includes(query, << " ", "a", "n", "d", " " >>) \/ includes(query, << " ", "t", "h", "e", "n", " " >>)
                  THEN "complex" ELSE "simple",
   reasoning |-> << "Rule-based fallback" >>,
   llm |-> FALSE]

\* what the completion call can end with: a rejection, a content block that
\* is no text, text that JSON.parse rejects, the JSON value null, or a JSON
\* object with a targetAgent and perhaps a confidence
UnknownAgentId == "inventory-agent-002"

LlmObjects ==
  { [kind |-> "object", targetAgent |-> ta, hasConfidence |-> hc, confidence |-> cf] :
      ta \in {LocationAgentId, UnknownAgentId}, hc \in BOOLEAN,
      cf \in {0, ConfidenceThreshold - 1, ConfidenceThreshold} }

LlmFailures ==
  { [kind |-> k, targetAgent |-> "", hasConfidence |-> FALSE, confidence |-> 0] :
      k \in {"rejected", "not-text", "unparsable", "null"} }

LlmReplies ==
  { x \in LlmObjects : x.hasConfidence \/ x.confidence = 0 } \cup LlmFailures

\* the confidence test of classifyQueryLLM on the (defaulted) confidence
lowConfidenceOffByOne(c) == c < ConfidenceThreshold - 1

lowConfidence(c) == c < ConfidenceThreshold

\* the registry test of classifyQueryLLM: !agent || !agent.healthy
targetUnavailable(ags, id) ==
  getAgent(ags, id) = << >> \/ ~getAgent(ags, id)[1].healthy

\* classifyQueryLLM from the settled Promise.race on: reply is what the
\* completion call delivered, or "timeout" when the timer won the race
classifyReplyKeepsIntent(query, reply, ags) ==
  LET fallback == fallbackClassification(query, ags)
      note(txt) == [fallback EXCEPT !.reasoning = Append(@, txt)]
  IN
  IF reply.kind # "object" THEN [fallback EXCEPT !.llm = TRUE, !.intent = "llm_intent"]
  ELSE IF targetUnavailable(ags, reply.targetAgent)
    THEN note("Target agent unavailable, using fallback")
  ELSE LET c == IF reply.hasConfidence THEN reply.confidence ELSE DefaultConfidence IN
    IF lowConfidence(c) THEN note("Low confidence fallback")
    ELSE [intent |-> "llm_intent", confidence |-> c,
          targetAgent |-> reply.targetAgent, parameters |-> query,
          complexity |-> "simple", reasoning |-> << "llm" >>, llm |-> TRUE]

classifyReply(query, reply, ags) ==
  LET fallback == fallbackClassification(query, ags)
      note(txt) == [fallback EXCEPT !.reasoning = Append(@, txt)]
  IN
  IF reply.kind # "object" THEN fallback                 \* the catch block
  ELSE IF targetUnavailable(ags, reply.targetAgent)
    THEN note("Target agent unavailable, using fallback")
  ELSE LET c == IF reply.hasConfidence THEN reply.confidence ELSE DefaultConfidence IN
    IF lowConfidence(c) THEN note("Low confidence fallback")
    ELSE [intent |-> "llm_intent", confidence |-> c,
          targetAgent |-> reply.targetAgent, parameters |-> query,
          complexity |-> "simple", reasoning |-> << "llm" >>, llm |-> TRUE]

TimedOut == [kind |-> "timeout", targetAgent |-> "", hasConfidence |-> FALSE,
             confidence |-> 0]

\* ======================================================= registry queries
\* The characters of every string the queries compare.
Chars ==
     ("location" :> << "l", "o", "c", "a", "t", "i", "o", "n" >>)
  @@ ("find" :> << "f", "i", "n", "d" >>)
  @@ ("where" :> << "w", "h", "e", "r", "e" >>)
  @@ ("search" :> << "s", "e", "a", "r", "c", "h" >>)
  @@ ("product" :> << "p", "r", "o", "d", "u", "c", "t" >>)
  @@ ("locate" :> << "l", "o", "c", "a", "t", "e" >>)
  @@ ("position" :> << "p", "o", "s", "i", "t", "i", "o", "n" >>)
  @@ ("area" :> << "a", "r", "e", "a" >>)
  @@ ("zone" :> << "z", "o", "n", "e" >>)
  @@ ("frozen" :> << "f", "r", "o", "z", "e", "n" >>)
  @@ ("dry" :> << "d", "r", "y" >>)
  @@ ("refrigerated" :> << "r", "e", "f", "r", "i", "g", "e", "r", "a", "t", "e", "d" >>)
  @@ ("inventory" :> << "i", "n", "v", "e", "n", "t", "o", "r", "y" >>)
  @@ ("region" :> << "r", "e", "g", "i", "o", "n" >>)
  @@ ("space" :> << "s", "p", "a", "c", "e" >>)
  @@ ("utilization" :> << "u", "t", "i", "l", "i", "z", "a", "t", "i", "o", "n" >>)
  @@ ("capacity" :> << "c", "a", "p", "a", "c", "i", "t", "y" >>)
  @@ ("usage" :> << "u", "s", "a", "g", "e" >>)
  @@ ("optimization" :> << "o", "p", "t", "i", "m", "i", "z", "a", "t", "i", "o", "n" >>)
  @@ ("efficiency" :> << "e", "f", "f", "i", "c", "i", "e", "n", "c", "y" >>)
  @@ ("expiration" :> << "e", "x", "p", "i", "r", "a", "t", "i", "o", "n" >>)
  @@ ("expire" :> << "e", "x", "p", "i", "r", "e" >>)
  @@ ("date" :> << "d", "a", "t", "e" >>)
  @@ ("fefo" :> << "f", "e", "f", "o" >>)
  @@ ("shelf life" :> << "s", "h", "e", "l", "f", " ", "l", "i", "f", "e" >>)
  @@ ("aging" :> << "a", "g", "i", "n", "g" >>)
  @@ ("quantity" :> << "q", "u", "a", "n", "t", "i", "t", "y" >>)
  @@ ("amount" :> << "a", "m", "o", "u", "n", "t" >>)
  @@ ("count" :> << "c", "o", "u", "n", "t" >>)
  @@ ("stock" :> << "s", "t", "o", "c", "k" >>)
  @@ ("levels" :> << "l", "e", "v", "e", "l", "s" >>)
  @@ ("highest" :> << "h", "i", "g", "h", "e", "s", "t" >>)
  @@ ("most" :> << "m", "o", "s", "t" >>)
  @@ ("top" :> << "t", "o", "p" >>)
  @@ ("ranking" :> << "r", "a", "n", "k", "i", "n", "g" >>)
  @@ ("license" :> << "l", "i", "c", "e", "n", "s", "e" >>)
  @@ ("plate" :> << "p", "l", "a", "t", "e" >>)
  @@ ("lp" :> << "l", "p" >>)
  @@ ("identification" :> << "i", "d", "e", "n", "t", "i", "f", "i", "c", "a", "t", "i", "o", "n" >>)
  @@ ("tracking" :> << "t", "r", "a", "c", "k", "i", "n", "g" >>)
  @@ ("pallet" :> << "p", "a", "l", "l", "e", "t" >>)
  @@ ("id" :> << "i", "d" >>)
  @@ ("identifier" :> << "i", "d", "e", "n", "t", "i", "f", "i", "e", "r" >>)
  @@ ("container" :> << "c", "o", "n", "t", "a", "i", "n", "e", "r" >>)
  @@ ("coordinates" :> << "c", "o", "o", "r", "d", "i", "n", "a", "t", "e", "s" >>)
  @@ ("aisle" :> << "a", "i", "s", "l", "e" >>)
  @@ ("bay" :> << "b", "a", "y" >>)
  @@ ("level" :> << "l", "e", "v", "e", "l" >>)
  @@ ("address" :> << "a", "d", "d", "r", "e", "s", "s" >>)
  @@ ("status" :> << "s", "t", "a", "t", "u", "s" >>)
  @@ ("condition" :> << "c", "o", "n", "d", "i", "t", "i", "o", "n" >>)
  @@ ("state" :> << "s", "t", "a", "t", "e" >>)
  @@ ("available" :> << "a", "v", "a", "i", "l", "a", "b", "l", "e" >>)
  @@ ("blocked" :> << "b", "l", "o", "c", "k", "e", "d" >>)
  @@ ("damaged" :> << "d", "a", "m", "a", "g", "e", "d" >>)
  @@ ("general" :> << "g", "e", "n", "e", "r", "a", "l" >>)
  @@ ("warehouse" :> << "w", "a", "r", "e", "h", "o", "u", "s", "e" >>)
  @@ ("query" :> << "q", "u", "e", "r", "y" >>)
  @@ ("Find" :> << "F", "i", "n", "d" >>)
  @@ ("LOCATION" :> << "L", "O", "C", "A", "T", "I", "O", "N" >>)
  @@ ("where is" :> << "w", "h", "e", "r", "e", " ", "i", "s" >>)
  @@ ("Natural language query processing" :> << "N", "a", "t", "u", "r", "a", "l", " ", "l", "a", "n", "g", "u", "a", "g", "e", " ", "q", "u", "e", "r", "y", " ", "p", "r", "o", "c", "e", "s", "s", "i", "n", "g" >>)
  @@ ("Multi-turn conversation memory" :> << "M", "u", "l", "t", "i", "-", "t", "u", "r", "n", " ", "c", "o", "n", "v", "e", "r", "s", "a", "t", "i", "o", "n", " ", "m", "e", "m", "o", "r", "y" >>)
  @@ ("Complex query decomposition" :> << "C", "o", "m", "p", "l", "e", "x", " ", "q", "u", "e", "r", "y", " ", "d", "e", "c", "o", "m", "p", "o", "s", "i", "t", "i", "o", "n" >>)
  @@ ("Parallel tool execution" :> << "P", "a", "r", "a", "l", "l", "e", "l", " ", "t", "o", "o", "l", " ", "e", "x", "e", "c", "u", "t", "i", "o", "n" >>)
  @@ ("Contextual reasoning" :> << "C", "o", "n", "t", "e", "x", "t", "u", "a", "l", " ", "r", "e", "a", "s", "o", "n", "i", "n", "g" >>)
  @@ ("Recommendation generation" :> << "R", "e", "c", "o", "m", "m", "e", "n", "d", "a", "t", "i", "o", "n", " ", "g", "e", "n", "e", "r", "a", "t", "i", "o", "n" >>)
  @@ ("Product location queries" :> << "P", "r", "o", "d", "u", "c", "t", " ", "l", "o", "c", "a", "t", "i", "o", "n", " ", "q", "u", "e", "r", "i", "e", "s" >>)
  @@ ("Space utilization analysis" :> << "S", "p", "a", "c", "e", " ", "u", "t", "i", "l", "i", "z", "a", "t", "i", "o", "n", " ", "a", "n", "a", "l", "y", "s", "i", "s" >>)
  @@ ("Inventory status management" :> << "I", "n", "v", "e", "n", "t", "o", "r", "y", " ", "s", "t", "a", "t", "u", "s", " ", "m", "a", "n", "a", "g", "e", "m", "e", "n", "t" >>)
  @@ ("Expiration date monitoring" :> << "E", "x", "p", "i", "r", "a", "t", "i", "o", "n", " ", "d", "a", "t", "e", " ", "m", "o", "n", "i", "t", "o", "r", "i", "n", "g" >>)
  @@ ("Multi-criteria warehouse searches" :> << "M", "u", "l", "t", "i", "-", "c", "r", "i", "t", "e", "r", "i", "a", " ", "w", "a", "r", "e", "h", "o", "u", "s", "e", " ", "s", "e", "a", "r", "c", "h", "e", "s" >>)
  @@ ("WHERE" :> << "W", "H", "E", "R", "E" >>)
  @@ ("zzz" :> << "z", "z", "z" >>)
  @@ ("loc" :> << "l", "o", "c" >>)
  @@ ("Stock" :> << "S", "t", "o", "c", "k" >>)
  @@ ("" :> << >>)
  @@ ("c" :> << "c" >>)
  @@ ("e" :> << "e" >>)
  @@ ("Tracking" :> << "T", "r", "a", "c", "k", "i", "n", "g" >>)

\* the tools[].intentTags of a manifest, by tool name: those getManifest of
\* the location agent attaches (getIntentTagsForTool), and those of the tools
\* t1 and t2 of the other agents
intentTags(tool) ==
  CASE tool = "find_product_locations" ->
         << "location", "find", "where", "search", "product", "locate",
         "position" >>
    [] tool = "get_inventory_by_area" ->
         << "area", "zone", "frozen", "dry", "refrigerated", "inventory",
         "region" >>
    [] tool = "analyze_space_utilization" ->
         << "space", "utilization", "capacity", "usage", "optimization",
         "efficiency" >>
    [] tool = "check_expiration_dates" ->
         << "expiration", "expire", "date", "fefo", "shelf life", "aging" >>
    [] tool = "quantity_analysis" ->
         << "quantity", "amount", "count", "stock", "levels", "highest",
         "most", "top", "ranking" >>
    [] tool = "find_by_license_plate" ->
         << "license", "plate", "lp", "identification", "tracking" >>
    [] tool = "find_by_pallet_id" ->
         << "pallet", "id", "identifier", "tracking", "container" >>
    [] tool = "find_by_location" ->
         << "coordinates", "aisle", "bay", "level", "address", "position" >>
    [] tool = "inventory_status_search" ->
         << "status", "condition", "state", "available", "blocked", "damaged"
         >>
    [] tool = "t1" ->
         << "Find", "stock" >>
    [] tool = "t2" ->
         << "LOCATION", "where is" >>
    [] OTHER -> << "general", "warehouse", "query" >>

\* the tag lists a caller asks with
TagLists ==
  { << >>,
    << "location", "find", "where" >>,
    << "quantity", "highest", "most" >>,
    << "area", "frozen", "dry" >>,
    << "WHERE" >>,
    << "zzz" >>,
    << "loc", "Stock" >>,
    << "" >> }

\* a.toLowerCase().includes(b.toLowerCase()) || the same the other way round
LowerChars == [w \in DOMAIN Chars |-> toLowerCase(Chars[w])]

fuzzyMatch(a, b) ==
  \/ includes(LowerChars[a], LowerChars[b])
  \/ includes(LowerChars[b], LowerChars[a])

\* list.filter(x => tags.some(tag => fuzzy match of x and tag))
matching(list, tags) ==
  SelectSeq(list, LAMBDA x : \E k \in 1..Len(tags) : fuzzyMatch(tags[k], x))

\* the score one tool adds: matchingTags.length * 2
toolScoreUnweighted(tool, tags) == Len(matching(intentTags(tool), tags))

toolScore(tool, tags) == Len(matching(intentTags(tool), tags)) * 2

RECURSIVE toolsScore(_, _)
toolsScore(tools, tags) ==
  IF tools = << >> THEN 0
  ELSE toolScore(Head(tools), tags) + toolsScore(Tail(tools), tags)

agentScore(agent, tags) ==
  toolsScore(agent.tools, tags)
  + Len(matching(agent.capabilities, tags))
  + Len(matching(agent.expertise, tags))

\* Array.prototype.sort((a, b) => b.score - a.score): stable, so an element
\* goes behind every element whose score is not lower
RECURSIVE insertByScore(_, _)
insertByScore(sorted, x) ==
  IF sorted = << >> THEN << x >>
  ELSE IF Head(sorted).score >= x.score
       THEN << Head(sorted) >> \o insertByScore(Tail(sorted), x)
       ELSE << x >> \o sorted

RECURSIVE sortByScore(_)
sortByScore(arr) ==
  IF arr = << >> THEN << >>
  ELSE insertByScore(sortByScore(SubSeq(arr, 1, Len(arr) - 1)), arr[Len(arr)])

findAgentsByIntentTags(ags, tags) ==
  LET healthy == getHealthyAgents(ags)
      scored == [j \in 1..Len(healthy) |->
                   [agent |-> healthy[j], score |-> agentScore(healthy[j], tags)]]
  IN sortByScore(SelectSeq(scored, LAMBDA x : x.score > 0))

\* ---- registries to ask: what discovery leaves of up to MaxAgents agents
SnapshotIds == << LocationAgentId, "a1", "a2", "a3", "a4" >>

Profiles(i) ==
  IF i = 1
  THEN { [tools |-> McpTools, capabilities |-> CardCapabilities,
          expertise |-> CardExpertise] }
  ELSE { [tools |-> << "t1" >>, capabilities |-> << "c" >>, expertise |-> << "e" >>],
         [tools |-> << "t1", "t2" >>, capabilities |-> << "Tracking" >>,
          expertise |-> << >>],
         [tools |-> << >>, capabilities |-> << >>, expertise |-> << >>] }

SnapshotEntries(i) ==
  { NewEntry([Manifest(SnapshotIds[i], st, pr.tools)
                EXCEPT !.capabilities = pr.capabilities, !.expertise = pr.expertise],
             Cfg(SnapshotIds[i], "none", i > 1), 0, i) :
      st \in {"healthy", "unhealthy"}, pr \in Profiles(i) }

Snapshots ==
  UNION { { ags \in [1..n -> UNION { SnapshotEntries(i) : i \in 1..n }] :
              \A i \in 1..n : ags[i] \in SnapshotEntries(i) } : n \in 0..MaxAgents }

\* a caller asks the registry for the agents that match a list of tags
FindByIntentTags(tags) ==
  /\ call' = [fn |-> "findAgentsByIntentTags", tags |-> tags,
              result |-> findAgentsByIntentTags(agents, tags)]
  /\ UNCHANGED << regVars, orchVars >>

\* ---- the rule-based classification and the agent's planner, asked directly
\* the queries they are asked with
FallbackQueries ==
  { << "w", "h", "e", "r", "e", " ", "i", "s", " ", "p", "r", "o", "d", "u", "c", "t", " ", "1", "2", "6", "3", "7", "5", "5" >>,
    << "W", "h", "e", "r", "e", " ", "I", "s", " ", "i", "t" >>,
    << "1", "2", "6", "3", "7", "5", "5" >>,
    << "s", "k", "u", "1", "2", "6", "3", "7", "5", "5" >>,
    << "t", "o", "p", "_", "1", "2", "6", "3", "7", "5", "5" >>,
    << "i", "d", ":", "1", "2", "6", "3", "7", "5", "5", "." >>,
    << "1", "2", "3", "4", "5" >>,
    << "h", "o", "w", " ", "m", "a", "n", "y", " ", "c", "o", "u", "n", "t" >>,
    << "c", "o", "u", "n", "t", " ", "w", "h", "e", "r", "e", " ", "i", "s", " ", "x" >>,
    << "h", "i", "g", "h", "e", "s", "t", " ", "a", "n", "d", " ", "m", "o", "s", "t" >>,
    << "t", "h", "e", " ", "M", "O", "S", "T" >>,
    << "s", "u", "m", "m", "a", "r", "y", " ", "o", "v", "e", "r", "v", "i", "e", "w" >>,
    << "s", "p", "a", "c", "e" >>,
    << "e", "x", "p", "i", "r", "e", " ", "s", "p", "a", "c", "e" >>,
    << "h", "e", "l", "l", "o" >>,
    << >>,
    << "a", " ", "a", "n", "d", " ", "b" >>,
    << "a", " ", "A", "N", "D", " ", "b" >>,
    << "f", "i", "r", "s", "t", " ", "t", "h", "e", "n", " ", "s", "e", "c", "o", "n", "d" >>,
    << "s", "h", "o", "w", " ", "s", "u", "m", "m", "a", "r", "y", " ", "t", "h", "e", "n", " ", "c", "o", "u", "n", "t" >> }

\* query.match(/\b\d{6,}\b/): the first match, << >> for null
productMatch(str) ==
  LET isMatch(i, j) ==
        /\ j - i + 1 >= 6
        /\ \A k \in i..j : str[k] \in Digits
        /\ (i = 1 \/ str[i - 1] \notin WordChars)
        /\ (j = Len(str) \/ str[j + 1] \notin WordChars)
      starts0 == { i \in 1..Len(str) : \E j \in i..Len(str) : isMatch(i, j) }
  IN IF starts0 = {} THEN << >>
     ELSE LET i == CHOOSE x \in starts0 : \A y \in starts0 : x <= y
              j == CHOOSE x \in i..Len(str) : isMatch(i, x)
          IN SubSeq(str, i, j)

\* the handler planAndExecuteQuery hands the query to
planAndExecuteQuery(query) ==
  LET lowerQuery == toLowerCase(query)
      has0(w) == includes(lowerQuery, w)
  IN IF has0(<< "h", "i", "g", "h", "e", "s", "t" >>) \/ has0(<< "m", "o", "s", "t" >>) \/ has0(<< "b", "e", "s", "t" >>)
        \/ has0(<< "t", "o", "p" >>) \/ has0(<< "l", "o", "w", "e", "s", "t" >>) \/ has0(<< "l", "e", "a", "s", "t" >>)
       THEN "handleRankingQuery"
     ELSE IF has0(<< "c", "o", "m", "p", "a", "r", "e" >>) \/ has0(<< "d", "i", "f", "f", "e", "r", "e", "n", "c", "e" >>) \/ has0(<< "v", "s" >>)
       THEN "handleComparisonQuery"
     ELSE IF (has0(<< "h", "o", "w", " ", "m", "a", "n", "y" >>) \/ has0(<< "c", "o", "u", "n", "t" >>) \/ has0(<< "t", "o", "t", "a", "l", " ", "n", "u", "m", "b", "e", "r" >>))
             /\ ~has0(<< "e", "x", "p", "l", "a", "i", "n" >>)
       THEN "handleCountQuery"
     ELSE IF has0(<< "w", "h", "e", "r", "e", " ", "i", "s" >>) \/ has0(<< "f", "i", "n", "d" >>) \/ has0(<< "l", "o", "c", "a", "t", "e" >>)
       THEN "handleLocationQuery"
     ELSE IF has0(<< "i", "n", " ", "a", "r", "e", "a" >>) \/ has0(<< "f", "r", "o", "z", "e", "n" >>) \/ has0(<< "d", "r", "y" >>) \/ has0(<< "r", "e", "f", "r", "i", "g", "e", "r", "a", "t", "e", "d" >>)
       THEN "handleAreaQuery"
     ELSE IF has0(<< "s", "u", "m", "m", "a", "r", "y" >>) \/ has0(<< "o", "v", "e", "r", "v", "i", "e", "w" >>) \/ has0(<< "r", "e", "p", "o", "r", "t" >>)
       THEN "handleSummaryQuery"
     ELSE IF (has0(<< "e", "x", "p", "l", "a", "i", "n" >>) \/ has0(<< "h", "o", "w", " ", "d", "o", " ", "y", "o", "u" >>) \/ has0(<< "w", "h", "a", "t", " ", "t", "o", "o", "l", "s" >>))
             /\ ~has0(<< "h", "o", "w", " ", "m", "a", "n", "y" >>)
       THEN "handleExplanationQuery"
     ELSE "handleFlexibleQuery"

\* queries for the planner: the four of the project's test plan and some
\* that meet several rules or none
PlannerQueries ==
  { << "c", "o", "m", "p", "a", "r", "e", " ", "f", "r", "o", "z", "e", "n", " ", "v", "s", " ", "d", "r", "y", " ", "a", "r", "e", "a", "s" >>,
    << "g", "i", "v", "e", " ", "m", "e", " ", "a", " ", "w", "a", "r", "e", "h", "o", "u", "s", "e", " ", "s", "u", "m", "m", "a", "r", "y" >>,
    << "h", "o", "w", " ", "d", "o", " ", "y", "o", "u", " ", "g", "e", "t", " ", "t", "h", "e", "s", "e", " ", "n", "u", "m", "b", "e", "r", "s", "?" >>,
    << "W", "h", "a", "t", " ", "p", "r", "o", "d", "u", "c", "t", " ", "h", "a", "s", " ", "t", "h", "e", " ", "h", "i", "g", "h", "e", "s", "t", " ", "n", "u", "m", "b", "e", "r", " ", "o", "f", " ", "p", "a", "l", "l", "e", "t", "s", "?" >>,
    << "p", "r", "o", "d", "u", "c", "t", " ", "1", "2", "6", "3", "7", "5", "5" >>,
    << "e", "x", "p", "l", "a", "i", "n", " ", "h", "o", "w", " ", "m", "a", "n", "y" >>,
    << "e", "x", "p", "l", "a", "i", "n", " ", "t", "h", "e", " ", "c", "o", "u", "n", "t" >>,
    << "s", "t", "o", "p" >>,
    << "w", "h", "a", "t", " ", "i", "s", " ", "i", "n", " ", "a", "r", "e", "a", " ", "f" >> }

\* handleFlexibleQuery that always answers with the guidance text
handleFlexibleQueryGuidanceOnly(query) == "guidance"

\* handleFlexibleQuery: a product search when the query names 'product' and
\* holds a product number, the guidance text otherwise
handleFlexibleQuery(query) ==
  IF /\ includes(toLowerCase(query), << "p", "r", "o", "d", "u", "c", "t" >>)
     /\ \E i \in 1..Len(query) : query[i] \in Digits
     /\ productMatch(query) # << >>
  THEN "product search" ELSE "guidance"

\* what the handler of the query answers when nothing fails
handlerContent(query) ==
  IF planAndExecuteQuery(query) = "handleFlexibleQuery"
  THEN handleFlexibleQuery(query) ELSE "answer"

\* fallbackClassification(query, registry), and what the agent's planner and
\* its location handler make of the same query
FallbackThenPlan(query) ==
  /\ call' = [fn |-> "fallbackClassification", query |-> query,
              result |-> fallbackClassification(query, agents),
              handler |-> planAndExecuteQuery(query),
              productNumber |-> productMatch(query)]
  /\ UNCHANGED << regVars, orchVars >>

\* ----------------------------------------------------------------- clock
Tick ==
  /\ now < MaxTime
  /\ now' = now + 1
  /\ UNCHANGED << config, agents, refreshTimer, timers, nTimers,
                  nStarts, starts, stops, cycles, reads, recovered,
                  orchVars, call >>

\* ------------------------------------------------ the registry on its own
InitOrchIdle ==
  /\ isRunning = FALSE /\ mcpReady = FALSE /\ llmMode = FALSE /\ memories = {}
  /\ conversations = << >> /\ reqs = << >>
  /\ call = NoCall

InitReg ==
  /\ InitOrchIdle
  /\ config \in Configs
  /\ now = 0
  /\ agents = << >>
  /\ refreshTimer = 0 /\ timers = {} /\ nTimers = 0
  /\ nStarts = 0 /\ starts = << >> /\ stops = 0 /\ cycles = << >> /\ reads = << >> /\ recovered = FALSE

NextReg ==
  \/ StartCall
  \/ \E p \in 1..MaxStarts : StartFetched(p)
  \/ \E p \in 1..MaxStarts : StartFinish(p)
  \/ \E tm \in 1..MaxStarts : TimerTick(tm, MaxCycles)
  \/ \E k \in 1..MaxCycles, o \in ProbeOutcomes : ProbeDone(k, o)
  \/ Stop
  \/ Tick

SpecReg == InitReg /\ [][NextReg]_vars

\* the registry when the interval fires while a cycle is still waiting
NextOverlap ==
  \/ StartCall
  \/ \E p \in 1..MaxStarts : StartFetched(p)
  \/ \E p \in 1..MaxStarts : StartFinish(p)
  \/ \E tm \in 1..MaxStarts : TimerTick(tm, MaxTicks)
  \/ \E k \in 1..MaxTicks, o \in ProbeOutcomes : ProbeDone(k, o)
  \/ Tick

SpecOverlap == InitReg /\ [][NextOverlap]_vars

\* the registry and a caller that keeps and changes what the reads return
NextReads ==
  \/ StartCall
  \/ \E p \in 1..MaxStarts : StartFetched(p)
  \/ \E p \in 1..MaxStarts : StartFinish(p)
  \/ Stop
  \/ ReadAll
  \/ ReadHealthy
  \/ \E k \in 1..MaxReads : MutateList(k)
  \/ \E k \in 1..MaxReads, j \in 1..(2 * MaxStarts) : MutateEntry(k, j)

SpecReads == InitReg /\ [][NextReads]_vars

\* the queries of the registry, asked on a registry that discovery has filled
InitQueries ==
  /\ isRunning \in BOOLEAN /\ mcpReady = isRunning /\ llmMode = FALSE
  /\ memories = {} /\ conversations = << >> /\ reqs = << >>
  /\ call = NoCall
  /\ agents \in Snapshots
  /\ config = [i \in 1..Len(agents) |-> Cfg(agents[i].agentId, "none", agents[i].endpoint)]
  /\ now = 0
  /\ refreshTimer = 1 /\ timers = {1} /\ nTimers = 1
  /\ nStarts = 1 /\ starts = << >> /\ stops = 0 /\ cycles = << >> /\ reads = << >> /\ recovered = FALSE


\* ========================================================== orchestrator
HistoryWindow == 20   \* conversationHistory.slice(-20)
Sessions == { "s1", "s2" }

\* ---- the location agent
\* LocationAgentServer.start(): initializeMCPTools, then isRunning = true
AgentInit ==
  /\ ~mcpReady
  /\ mcpReady' = TRUE
  /\ UNCHANGED << call, regVars, isRunning, memories, llmMode, conversations, reqs >>

AgentRunning ==
  /\ mcpReady /\ ~isRunning
  /\ isRunning' = TRUE
  /\ UNCHANGED << call, regVars, mcpReady, memories, llmMode, conversations, reqs >>

\* LocationAgentServer.stop()
AgentStop ==
  /\ isRunning
  /\ isRunning' = FALSE
  /\ memories' = {}                       \* this.conversations.clear()
  /\ UNCHANGED << call, regVars, mcpReady, llmMode, conversations, reqs >>

\* LocationAgentServer.getOrCreateMemory
getOrCreateMemory(mem, sid) == mem \cup {sid}

\* ---- a request
NoClass == << >>

Request(q, sid) ==
  [query |-> q, sessionId |-> sid, pc |-> "new", cls |-> NoClass,
   calls |-> 0, callAt |-> 0,
   invoked |-> FALSE, outcome |-> "pending", error |-> "",
   status |-> 0, body |-> "none"]

\* lastActivity and the timestamps of the turns are written and never read
NewContext ==
  [conversationHistory |-> << >>, lastIntent |-> "", lastAgent |-> "",
   lastParameters |-> << >>]

getOrCreateContext(conv, sid) ==
  IF sid \in DOMAIN conv THEN conv ELSE (sid :> NewContext) @@ conv

\* POST /query without a query: 400 and processQuery is not called
badRequest(req) ==
  [req EXCEPT !.pc = "done", !.status = 400, !.body = "error",
              !.error = "Query is required"]

\* what is left of a processQuery call when it has ended
ended(req) == [req EXCEPT !.pc = "done", !.cls = NoClass, !.callAt = 0]

\* the catch of the POST /query route around processQuery
queryCatchEmpty(req, msg) ==
  [ended(req) EXCEPT !.outcome = "threw", !.error = msg]

queryCatch(req, msg) ==
  [ended(req) EXCEPT !.outcome = "threw", !.error = msg,
                     !.status = 500, !.body = "error"]

\* res.json(result) after processQuery returned
queryResult(req) ==
  [ended(req) EXCEPT !.outcome = "returned", !.status = 200, !.body = "result"]

\* processQuery up to the await of classifyQuery: the context is created,
\* and classifyQueryLLM either returns the fallback at once or starts the
\* timer and then the completion call
PostQuery(q, sid, max) ==
  /\ Len(reqs) < max
  /\ LET req == Request(q, sid) IN
     IF QueryTexts[q] = << >>
     THEN /\ reqs' = Append(reqs, badRequest(req))
          /\ UNCHANGED conversations
     ELSE /\ conversations' = getOrCreateContext(conversations, sid)
          /\ reqs' = Append(reqs,
               IF llmMode
               THEN [req EXCEPT !.pc = "llm", !.calls = 1, !.callAt = now]
               ELSE [req EXCEPT !.pc = "classified",
                       !.cls = << fallbackClassification(QueryTexts[q], agents) >>])
  /\ UNCHANGED << call, regVars, isRunning, mcpReady, memories, llmMode >>

\* the completion call settles before the timer fires
LlmAnswer(r, reply) ==
  /\ r \in 1..Len(reqs) /\ reqs[r].pc = "llm"
  /\ now < reqs[r].callAt + ClaudeTimeout
  /\ reqs' = [reqs EXCEPT ![r] =
       [@ EXCEPT !.pc = "classified", !.callAt = 0,
                 !.cls = << classifyReply(QueryTexts[reqs[r].query], reply, agents) >>]]
  /\ UNCHANGED << call, regVars, isRunning, mcpReady, memories, llmMode, conversations >>

\* the timer fires first
LlmTimeout(r) ==
  /\ r \in 1..Len(reqs) /\ reqs[r].pc = "llm"
  /\ now >= reqs[r].callAt + ClaudeTimeout
  /\ reqs' = [reqs EXCEPT ![r] =
       [@ EXCEPT !.pc = "classified", !.callAt = 0,
                 !.cls = << classifyReply(QueryTexts[reqs[r].query], TimedOut, agents) >>]]
  /\ UNCHANGED << call, regVars, isRunning, mcpReady, memories, llmMode, conversations >>

\* the checks of routeToAgent before it builds the message
routeErrorUnknownOnly(ags, id) ==
  IF getAgent(ags, id) = << >> THEN "not found"
  ELSE ""

routeError(ags, id) ==
  IF getAgent(ags, id) = << >> THEN "not found"
  ELSE IF ~getAgent(ags, id)[1].healthy THEN "is unhealthy"
  ELSE ""

\* routeToAgent up to the await of processMessage: whether processMessage
\* of the location agent is called, and the error routeToAgent ends with
routeToAgent(ags, target, running) ==
  IF routeError(ags, target) # ""
  THEN [invoked |-> FALSE, error |-> routeError(ags, target)]
  ELSE IF target # LocationAgentId
  THEN [invoked |-> FALSE, error |-> "Agent routing not implemented"]
  ELSE IF ~running
  THEN [invoked |-> TRUE, error |-> "Location Agent is not running"]
  ELSE [invoked |-> TRUE, error |-> ""]

Route(r) ==
  /\ r \in 1..Len(reqs) /\ reqs[r].pc = "classified"
  /\ LET routed == routeToAgent(agents, reqs[r].cls[1].targetAgent, isRunning)
         req == [reqs[r] EXCEPT !.invoked = routed.invoked]
     IN /\ reqs' = [reqs EXCEPT ![r] =
             IF routed.error # "" THEN queryCatch(req, routed.error)
             ELSE [req EXCEPT !.pc = "dispatched"]]
        /\ memories' = IF routed.invoked /\ routed.error = ""
                       THEN getOrCreateMemory(memories, reqs[r].sessionId)
                       ELSE memories
  /\ UNCHANGED << call, regVars, isRunning, mcpReady, llmMode, conversations >>

\* slice(0, n) in place of slice(-n)
LastKeepsOldest(seq, n) == IF Len(seq) > n THEN SubSeq(seq, 1, n) ELSE seq

Last(seq, n) == IF Len(seq) > n THEN SubSeq(seq, Len(seq) - n + 1, Len(seq)) ELSE seq

\* slice(-19): a window of an odd number of turns
updateConversationContextOddWindow(ctx, r, req, st) ==
  [ctx EXCEPT
     !.conversationHistory =
        Last(@ \o << [role |-> "user", content |-> req.query, req |-> r],
                     [role |-> "agent", content |-> st, req |-> r] >>,
             HistoryWindow - 1),
     !.lastIntent = req.cls[1].intent,
     !.lastAgent = req.cls[1].targetAgent,
     !.lastParameters = req.cls[1].parameters]

updateConversationContext(ctx, r, req, st) ==
  [ctx EXCEPT
     !.conversationHistory =
        Last(@ \o << [role |-> "user", content |-> req.query, req |-> r],
                     [role |-> "agent", content |-> st, req |-> r] >>,
             HistoryWindow),
     !.lastIntent = req.cls[1].intent,
     !.lastAgent = req.cls[1].targetAgent,
     !.lastParameters = req.cls[1].parameters]

\* processMessage settles (a response of status success or error), and
\* processQuery updates the context and returns
AgentResponds(r, st) ==
  /\ r \in 1..Len(reqs) /\ reqs[r].pc = "dispatched"
  /\ conversations' = [conversations EXCEPT ![reqs[r].sessionId] =
                         updateConversationContext(@, r, reqs[r], st)]
  /\ reqs' = [reqs EXCEPT ![r] = queryResult(@)]
  /\ UNCHANGED << call, regVars, isRunning, mcpReady, memories, llmMode >>

\* the instants at which something happens: the next unit of time up to
\* MaxTime, and the instant at which the next pending timer is due
Instants ==
  { now + 1 : x \in { y \in {0} : now < MaxTime } }
  \cup { reqs[r].callAt + ClaudeTimeout : r \in { x \in 1..Len(reqs) : reqs[x].pc = "llm" } }

\* time passes up to the next instant; a due timer fires before more passes
OrchTick(t) ==
  /\ t \in Instants /\ t > now
  /\ \A u \in Instants : u >= t
  /\ ~\E r \in 1..Len(reqs) :
        reqs[r].pc = "llm" /\ now >= reqs[r].callAt + ClaudeTimeout
  /\ now' = t
  /\ UNCHANGED << config, agents, refreshTimer, timers, nTimers,
                  nStarts, starts, stops, cycles, reads, recovered,
                  orchVars, call >>

InitOrch ==
  /\ isRunning = FALSE /\ mcpReady = FALSE /\ llmMode \in BOOLEAN /\ memories = {}
  /\ conversations = << >> /\ reqs = << >>
  /\ call = NoCall
  /\ config = OrchConfig
  /\ now = 0
  /\ agents = << >>
  /\ refreshTimer = 0 /\ timers = {} /\ nTimers = 0
  /\ nStarts = 0 /\ starts = << >> /\ stops = 0 /\ cycles = << >> /\ reads = << >> /\ recovered = FALSE

NextOrch ==
  \/ AgentInit
  \/ AgentRunning
  \/ AgentStop
  \/ StartCall
  \/ \E p \in 1..MaxStarts : StartFinish(p)
  \/ \E tm \in 1..MaxStarts : TimerTick(tm, MaxCycles)
  \/ \E k \in 1..MaxCycles, o \in ProbeOutcomes : ProbeDone(k, o)
  \/ Stop
  \/ \E q \in 1..Len(QueryTexts), sid \in Sessions : PostQuery(q, sid, MaxReqs)
  \/ \E r \in 1..MaxReqs, reply \in LlmReplies : LlmAnswer(r, reply)
  \/ \E r \in 1..MaxReqs : LlmTimeout(r)
  \/ \E r \in 1..MaxReqs : Route(r)
  \/ \E r \in 1..MaxReqs, st \in {"success", "error"} : AgentResponds(r, st)
  \/ \E t \in 1..(MaxTime + ClaudeTimeout) : OrchTick(t)

SpecOrch == InitOrch /\ [][NextOrch]_vars

\* requests that overlap, on a registry that is started and left alone
NextSessions ==
  \/ AgentInit
  \/ AgentRunning
  \/ StartCall
  \/ \E p \in 1..MaxStarts : StartFinish(p)
  \/ \E q \in 1..Len(QueryTexts), sid \in Sessions : PostQuery(q, sid, MaxOverlap)
  \/ \E r \in 1..MaxOverlap, reply \in LlmReplies : LlmAnswer(r, reply)
  \/ \E r \in 1..MaxOverlap : LlmTimeout(r)
  \/ \E r \in 1..MaxOverlap : Route(r)
  \/ \E r \in 1..MaxOverlap, st \in {"success", "error"} : AgentResponds(r, st)
  \/ \E t \in 1..(MaxTime + ClaudeTimeout) : OrchTick(t)

SpecSessions == InitOrch /\ [][NextSessions]_vars

\* ---- sessions that have talked before
\* the turns that n earlier exchanges have left in a history
EarlierTurns(n) ==
  [i \in 1..(2 * n) |->
     IF i % 2 = 1
     THEN [role |-> "user", content |-> 1 + ((i \div 2) % 2), req |-> 0]
     ELSE [role |-> "agent", req |-> 0,
           content |-> IF (i \div 2) % 2 = 1 THEN "success" ELSE "error"]]

EarlierContext(n) ==
  [NewContext EXCEPT !.conversationHistory = EarlierTurns(n),
                     !.lastIntent = "general_warehouse_query",
                     !.lastAgent = LocationAgentId]

\* no session yet, or session s1 one exchange short of a full window, or
\* with a full window
EarlierConversations ==
  { << >> } \cup { ("s1" :> EarlierContext(n)) :
                     n \in { HistoryWindow \div 2 - 1, HistoryWindow \div 2 } }

InitHistory ==
  /\ isRunning = FALSE /\ mcpReady = FALSE /\ llmMode = FALSE /\ memories = {}
  /\ conversations \in EarlierConversations
  /\ reqs = << >>
  /\ call = NoCall
  /\ config = OrchConfig
  /\ now = 0
  /\ agents = << >>
  /\ refreshTimer = 0 /\ timers = {} /\ nTimers = 0
  /\ nStarts = 0 /\ starts = << >> /\ stops = 0 /\ cycles = << >> /\ reads = << >> /\ recovered = FALSE

\* exchanges classified by the rules, on a registry that is started and left
\* alone
NextHistory ==
  \/ AgentInit
  \/ AgentRunning
  \/ StartCall
  \/ \E p \in 1..MaxStarts : StartFinish(p)
  \/ \E q \in 1..Len(QueryTexts), sid \in Sessions : PostQuery(q, sid, MaxOverlap)
  \/ \E r \in 1..MaxOverlap : Route(r)
  \/ \E r \in 1..MaxOverlap, st \in {"success", "error"} : AgentResponds(r, st)

SpecHistory == InitHistory /\ [][NextHistory]_vars

\* routeToAgent on the registry as it is, for a classification naming target
RouteToAgent(target) ==
  /\ call' = [fn |-> "routeToAgent", target |-> target, running |-> isRunning,
              result |-> routeToAgent(agents, target, isRunning)]
  /\ UNCHANGED << regVars, orchVars >>

NextQueries ==
  \/ \E tags \in TagLists : FindByIntentTags(tags)
  \/ \E query \in FallbackQueries : FallbackThenPlan(query)
  \/ \E i \in 1..Len(SnapshotIds) : RouteToAgent(SnapshotIds[i])

SpecQueries == InitQueries /\ [][NextQueries]_vars

\* ---- the registry's reports
\* agents.reduce((sum, agent) => sum + agent.tools.length, 0), counting one
\* per agent
RECURSIVE sumToolsCountsAgents(_)
sumToolsCountsAgents(list) ==
  IF list = << >> THEN 0
  ELSE 1 + sumToolsCountsAgents(Tail(list))

\* agents.reduce((sum, agent) => sum + agent.tools.length, 0)
RECURSIVE sumTools(_)
sumTools(list) ==
  IF list = << >> THEN 0
  ELSE Len(Head(list).tools) + sumTools(Tail(list))

RECURSIVE gcd(_, _)
gcd(a, b) == IF b = 0 THEN a ELSE gcd(b, a % b)

\* the number a / b, kept as a fraction in lowest terms
divide(a, b) == [num |-> a \div gcd(a, b), den |-> b \div gcd(a, b)]

\* Math.max() of no arguments is -Infinity; times are never negative
NegInfinity == 0 - 1

RECURSIVE mathMax(_)
mathMax(nums) ==
  IF nums = << >> THEN NegInfinity
  ELSE IF Head(nums) > mathMax(Tail(nums)) THEN Head(nums)
  ELSE mathMax(Tail(nums))

\* new Date(ms): of -Infinity it is an Invalid Date
newDate(ms) ==
  IF ms = NegInfinity THEN [valid |-> FALSE, time |-> 0]
  ELSE [valid |-> TRUE, time |-> ms]

getRegistryStats(ags) ==
  [totalAgents |-> Len(getAllAgents(ags)),
   healthyAgents |-> Len(getHealthyAgents(ags)),
   totalTools |-> sumTools(getAllAgents(ags)),
   avgToolsPerAgent |-> IF Len(getAllAgents(ags)) > 0
                        THEN divide(sumTools(getAllAgents(ags)), Len(getAllAgents(ags)))
                        ELSE divide(0, 1),
   lastRefresh |-> newDate(mathMax([j \in 1..Len(getAllAgents(ags)) |->
                                      getAllAgents(ags)[j].lastHealthCheck]))]

\* registries whose entries were last probed at different times
TimedSnapshots ==
  UNION { { [j \in 1..Len(ags) |-> [ags[j] EXCEPT !.lastHealthCheck = ts[j]]] :
              ts \in [1..Len(ags) -> 0..MaxTime] } : ags \in Snapshots }

\* list.join(', ')
RECURSIVE join(_)
join(list) ==
  IF list = << >> THEN << >>
  ELSE IF Len(list) = 1 THEN << Head(list) >>
  ELSE << Head(list), ", " >> \o join(Tail(list))

\* the two lines generatePromptContext writes for each tool, for all tools
RECURSIVE toolLines(_)
toolLines(tools) ==
  IF tools = << >> THEN << >>
  ELSE << << "    * ", Head(tools), ": ", "<description>" >>,
          << "      Intent tags: " >> \o join(intentTags(Head(tools))) >>
       \o toolLines(Tail(tools))

\* the lines of one agent, the empty line after them included
agentLines(agent) ==
  << << agent.agentId, ": ", agent.name >>,
     << "  Description: ", agent.description >>,
     << "  Tools:" >> >>
  \o toolLines(agent.tools)
  \o << << "  Capabilities: " >> \o join(agent.capabilities),
        << "  Expertise: " >> \o join(agent.expertise),
        << >> >>

RECURSIVE agentsLines(_)
agentsLines(list) ==
  IF list = << >> THEN << >>
  ELSE agentLines(Head(list)) \o agentsLines(Tail(list))

\* the text as its lines, each line as the pieces it is put together from
generatePromptContext(ags) ==
  IF Len(getHealthyAgents(ags)) = 0
  THEN << << "No healthy agents available." >> >>
  ELSE << << "AVAILABLE AGENTS AND CAPABILITIES:" >>, << >> >>
       \o agentsLines(getHealthyAgents(ags))

\* registries that hold an agent whose manifest names one tool twice
DuplicateToolSnapshots ==
  { Append(ags, NewEntry(DuplicateToolManifest, Cfg("a1", "mock", FALSE), t, MaxAgents + 1)) :
      ags \in { x \in TimedSnapshots : Len(x) <= 1 }, t \in 0..MaxTime }

GeneratePromptContext ==
  /\ call' = [fn |-> "generatePromptContext", result |-> generatePromptContext(agents)]
  /\ UNCHANGED << regVars, orchVars >>

GetRegistryStats ==
  /\ call' = [fn |-> "getRegistryStats", result |-> getRegistryStats(agents)]
  /\ UNCHANGED << regVars, orchVars >>

InitReports ==
  /\ InitOrchIdle
  /\ agents \in TimedSnapshots \cup DuplicateToolSnapshots
  /\ config = [i \in 1..Len(agents) |-> Cfg(agents[i].agentId, "none", agents[i].endpoint)]
  /\ now = MaxTime
  /\ refreshTimer = 1 /\ timers = {1} /\ nTimers = 1
  /\ nStarts = 1 /\ starts = << >> /\ stops = 0 /\ cycles = << >> /\ reads = << >> /\ recovered = FALSE

NextReports ==
  \/ GetRegistryStats
  \/ GeneratePromptContext

SpecReports == InitReports /\ [][NextReports]_vars

\* ---- processMessage, asked directly
Thrown(msg) == [kind |-> "threw", error |-> msg]

\* processWarehouseQuery without its try/catch
processWarehouseQueryNoCatch(query, outcome) ==
  IF outcome = "ok"
  THEN [kind |-> "response", status |-> "success", content |-> handlerContent(query),
        reasoning |-> << "analyzing", "planning", "executing", "completed" >>,
        handler |-> planAndExecuteQuery(query)]
  ELSE Thrown(outcome)

\* processWarehouseQuery: the reasoning trail it collects and the response
processWarehouseQuery(query, outcome) ==
  IF outcome = "ok"
  THEN [kind |-> "response", status |-> "success", content |-> handlerContent(query),
        reasoning |-> << "analyzing", "planning", "executing", "completed" >>,
        handler |-> planAndExecuteQuery(query)]
  ELSE [kind |-> "response", status |-> "error",
        content |-> "I encountered an issue processing your warehouse query",
        reasoning |-> << "analyzing", "planning", "executing", "error" >>,
        handler |-> planAndExecuteQuery(query)]

\* LocationAgentServer.processMessage; outcome is how the handler that
\* planAndExecuteQuery picks ends: it returns its text ("ok"), a tool call it
\* makes rejects, or the handler itself raises
processMessage(running, query, outcome) ==
  IF ~running THEN Thrown("Location Agent is not running")
  ELSE IF processWarehouseQuery(query, outcome).kind = "threw"
       THEN [kind |-> "response", status |-> "error",
             content |-> "I encountered an error processing your query",
             reasoning |-> << >>, handler |-> planAndExecuteQuery(query)]
       ELSE processWarehouseQuery(query, outcome)

ProcessMessage(sid, query, outcome) ==
  /\ call' = [fn |-> "processMessage", running |-> isRunning,
              sessionId |-> sid, query |-> query, outcome |-> outcome,
              result |-> processMessage(isRunning, query, outcome)]
  /\ memories' = IF isRunning THEN getOrCreateMemory(memories, sid) ELSE memories
  /\ UNCHANGED << regVars, isRunning, mcpReady, llmMode, conversations, reqs >>

\* the location agent on its own: its lifecycle and the messages it is sent
NextAgent ==
  \/ AgentInit
  \/ AgentRunning
  \/ AgentStop
  \/ \E sid \in Sessions, query \in FallbackQueries \cup PlannerQueries,
        outcome \in { "ok", "tool-failed", "raised" } :
       ProcessMessage(sid, query, outcome)

SpecAgent == InitOrch /\ [][NextAgent]_vars

\* ---- the handlers, tool call by tool call
SummaryTools ==
  << "analyze_space_utilization", "check_expiration_dates", "quantity_analysis" >>

\* processWarehouseQuery / planAndExecuteQuery up to the call of the handler.
\* issued and settled list the calls of mcpServer.callTool in the order in
\* which they were made and how each has ended; waitFor are the calls the
\* handler's pending await stands for.
invocation(query, sid) ==
  [fn |-> "processWarehouseQuery", query |-> query, sessionId |-> sid,
   handler |-> planAndExecuteQuery(query), pc |-> "awaiting",
   issued |-> << >>, settled |-> << >>, waitFor |-> {},
   toolCalls |-> << >>, reasoning |-> << "analyzing", "planning" >>,
   status |-> "pending", sections |-> << >>]

\* the handler calls mcpServer.callTool for each of tools and awaits them
issue(inv, tools) ==
  [inv EXCEPT !.issued = @ \o tools,
              !.settled = @ \o [i \in 1..Len(tools) |-> "pending"],
              !.waitFor = (Len(inv.issued) + 1)..(Len(inv.issued) + Len(tools))]

\* toolCalls.push({ tool, params, result }) for the calls lo..hi
RECURSIVE pushToolCalls(_, _, _)
pushToolCalls(inv, lo, hi) ==
  IF lo > hi THEN inv
  ELSE pushToolCalls([inv EXCEPT !.toolCalls =
                        Append(@, [tool |-> inv.issued[lo], result |-> inv.settled[lo]])],
                     lo + 1, hi)

\* the handler returned its text: the try branch of processWarehouseQuery
returned(inv, sections) ==
  [inv EXCEPT !.pc = "returned", !.status = "success", !.waitFor = {},
              !.sections = sections, !.reasoning = @ \o << "completed" >>]

\* handleSummaryQuery after Promise.all fulfilled
handleSummaryQuery(inv) ==
  LET pushed == pushToolCalls(inv, 1, Len(SummaryTools)) IN
  returned(pushed,
           SelectSeq(SummaryTools,
                     LAMBDA t : \E i \in 1..Len(SummaryTools) :
                                  inv.issued[i] = t /\ inv.settled[i] = "ok"))

\* handleRankingQuery after the awaited call fulfilled
handleRankingQuery(inv) ==
  IF Len(inv.issued) = 1
  THEN IF inv.settled[1] = "ok"
       THEN issue(pushToolCalls(inv, 1, 1), << "find_product_locations" >>)
       ELSE returned(pushToolCalls(inv, 1, 1), << >>)
  ELSE returned(pushToolCalls(inv, 2, 2), << "top product" >>)

\* the await of the handler after one more call has ended: Promise.all (and
\* a single await) rejects with the first rejection and fulfils when every
\* call has fulfilled
resume(inv, i) ==
  IF inv.pc # "awaiting" \/ i \notin inv.waitFor THEN inv
  ELSE IF inv.settled[i] = "failed"       \* the catch of processWarehouseQuery
       THEN [inv EXCEPT !.pc = "returned", !.status = "error", !.waitFor = {},
                        !.reasoning = @ \o << "error" >>]
  ELSE IF \E j \in inv.waitFor : inv.settled[j] = "pending" THEN inv
  ELSE IF inv.handler = "handleSummaryQuery" THEN handleSummaryQuery(inv)
  ELSE handleRankingQuery(inv)

\* processMessage of the running agent for a summary or ranking query, up to
\* the first await of the handler
StartHandler(query, sid) ==
  /\ isRunning
  /\ IF call.fn = "processWarehouseQuery" THEN call.pc = "returned" ELSE TRUE
  /\ planAndExecuteQuery(query) \in { "handleSummaryQuery", "handleRankingQuery" }
  /\ call' = LET inv == invocation(query, sid) IN
              IF inv.handler = "handleSummaryQuery"
              THEN issue([inv EXCEPT !.reasoning = @ \o << "summary" >>], SummaryTools)
              ELSE issue([inv EXCEPT !.reasoning = @ \o << "ranking" >>],
                         << "quantity_analysis" >>)
  /\ memories' = getOrCreateMemory(memories, sid)
  /\ UNCHANGED << regVars, isRunning, mcpReady, llmMode, conversations, reqs >>

\* a tool call ends (o: a result with a summary / items, a result without
\* them, or a rejection), and the handler goes on as far as it can
ToolSettles(i, o) ==
  /\ call.fn = "processWarehouseQuery"
  /\ i \in 1..Len(call.issued) /\ call.settled[i] = "pending"
  /\ call' = resume([call EXCEPT !.settled[i] = o], i)
  /\ UNCHANGED << regVars, orchVars >>

NextHandlers ==
  \/ AgentInit
  \/ AgentRunning
  \/ \E query \in FallbackQueries, sid \in Sessions : StartHandler(query, sid)
  \/ \E i \in 1..Len(SummaryTools), o \in { "ok", "empty", "failed" } : ToolSettles(i, o)

SpecHandlers == InitOrch /\ [][NextHandlers]_vars

\* ================================================================ claims

Pending(r) == r \in 1..Len(reqs) /\ reqs[r].pc = "llm"
Classified(r) == r \in 1..Len(reqs) /\ reqs[r].pc = "classified"
QueryOf(r) == QueryTexts[reqs[r].query]
SubstitutionNotes == { "Target agent unavailable, using fallback",
                       "Low confidence fallback" }

\* ---- C1 ----------------------------------------------------------------
\* C1: processMessage is invoked for a request only by the routing step of
\* that request, and only when, in the registry as it is at that step, the
\* classification's targetAgent has an entry whose healthy flag is true; a
\* routing step whose target has no entry or an unhealthy one ends the
\* request with the routing error and invokes nothing.
C1_DispatchOnlyToHealthyTarget ==
  [][ \A r \in 1..MaxReqs :
        /\ (r \in 1..Len(reqs') /\ reqs'[r].invoked
              /\ ~(r \in 1..Len(reqs) /\ reqs[r].invoked))
           => /\ Route(r)
              /\ getAgent(agents, reqs[r].cls[1].targetAgent) # << >>
              /\ getAgent(agents, reqs[r].cls[1].targetAgent)[1].healthy
        /\ (Route(r) /\ targetUnavailable(agents, reqs[r].cls[1].targetAgent))
           => /\ ~reqs'[r].invoked
              /\ reqs'[r].outcome = "threw"
              /\ reqs'[r].error \in {"not found", "is unhealthy"} ]_vars

\* a request whose target had become unhealthy ended in the routing error
C1_Witness ==
  \E r \in 1..Len(reqs) :
    /\ reqs[r].error = "is unhealthy" /\ ~reqs[r].invoked
    /\ reqs[r].calls = 1

\* ---- C2 ----------------------------------------------------------------
\* C2: when the LLM returns a structured result whose confidence is below 40
\* or whose targetAgent has no entry or an unhealthy one, classifyQueryLLM
\* returns the rule-based fallback with one of the two substitution notes
\* added to its reasoning; and every classification that reaches dispatch has
\* a confidence of at least 40.
C2_LowConfidenceOrDeadTargetFallsBack ==
  [][ \A r \in 1..MaxReqs :
        /\ \A reply \in LlmObjects :
             ( /\ reply \in LlmReplies
               /\ LlmAnswer(r, reply)
               /\ \/ reply.hasConfidence /\ reply.confidence < ConfidenceThreshold
                  \/ targetUnavailable(agents, reply.targetAgent) )
             => LET c == reqs'[r].cls[1]
                    f == fallbackClassification(QueryOf(r), agents)
                IN /\ [c EXCEPT !.reasoning = f.reasoning] = f
                   /\ Len(c.reasoning) = Len(f.reasoning) + 1
                   /\ SubSeq(c.reasoning, 1, Len(f.reasoning)) = f.reasoning
                   /\ c.reasoning[Len(c.reasoning)] \in SubstitutionNotes
        /\ (r \in 1..Len(reqs') /\ reqs'[r].pc = "classified")
           => reqs'[r].cls[1].confidence >= ConfidenceThreshold ]_vars

\* a result of confidence below 40 for a healthy target was replaced
C2_Witness ==
  \E r \in 1..Len(reqs) :
    /\ Classified(r) /\ reqs[r].calls = 1
    /\ reqs[r].cls[1].reasoning =
         << "Rule-based fallback", "Low confidence fallback" >>

\* ---- C3 ----------------------------------------------------------------
\* C3 as stated: no call of processQuery ends by throwing to its caller.
C3_ProcessQueryNeverThrows ==
  \A r \in 1..Len(reqs) : reqs[r].outcome # "threw"

\* C3, amended: every call of processQuery that has ended either returned a
\* well-formed response or threw the error to its caller, and the POST /query
\* route answers each of the two with a body that is not empty: the response
\* with status 200, the thrown error with status 500 and an error body that
\* carries the message; a request without a query gets status 400 and an
\* error body, and processQuery is not called for it.
C3_RouteAnswersResponseOrError ==
  \A r \in 1..Len(reqs) :
    reqs[r].pc = "done" =>
      \/ /\ reqs[r].outcome = "returned"
         /\ reqs[r].status = 200 /\ reqs[r].body = "result"
      \/ /\ reqs[r].outcome = "threw"
         /\ reqs[r].status = 500 /\ reqs[r].body = "error"
         /\ reqs[r].error # ""
      \/ /\ reqs[r].outcome = "pending" /\ QueryOf(r) = << >>
         /\ reqs[r].status = 400 /\ reqs[r].body = "error"

\* a dispatch to the agent that was not running ended in a thrown error
C3_Witness ==
  \E r \in 1..Len(reqs) :
    /\ reqs[r].outcome = "threw" /\ reqs[r].invoked
    /\ reqs[r].status = 500

C5_HistoryInArrivalOrder ==
  \A sid \in DOMAIN conversations :
    LET h == conversations[sid].conversationHistory IN
    \A i \in 1..Len(h), j \in 1..Len(h) : i < j => h[i].req <= h[j].req

\* ---- C11 ---------------------------------------------------------------
\* the same letter, whatever the case
SameLetter(x, y) ==
  \/ x = y
  \/ \E k \in 1..26 : {x, y} = {Upper[k], Lower[k]}

\* a occurs in b as a substring, case ignored
OccursIn(a, b) ==
  \E off \in 0..(Len(b) - Len(a)) :
    \A k \in 1..Len(a) : SameLetter(a[k], b[off + k])

Fuzzy(a, b) == OccursIn(Chars[a], Chars[b]) \/ OccursIn(Chars[b], Chars[a])

Hits(list, tags) ==
  Cardinality({ k \in 1..Len(list) : \E q \in 1..Len(tags) : Fuzzy(list[k], tags[q]) })

ToolHits(agent, tags) ==
  Cardinality({ tk \in UNION { { << t, k >> : k \in 1..Len(intentTags(agent.tools[t])) } :
                                t \in 1..Len(agent.tools) } :
                  \E q \in 1..Len(tags) :
                    Fuzzy(intentTags(agent.tools[tk[1]])[tk[2]], tags[q]) })

ExpectedScore(agent, tags) ==
  2 * ToolHits(agent, tags) + Hits(agent.capabilities, tags) + Hits(agent.expertise, tags)

ClaimedRules ==
  << [needles |-> { << "w", "h", "e", "r", "e", " ", "i", "s" >> },
      digits |-> TRUE, intent |-> "product_location_search"],
     [needles |-> { << "h", "o", "w", " ", "m", "a", "n", "y" >>, << "c", "o", "u", "n", "t" >> },
      digits |-> FALSE, intent |-> "inventory_count_query"],
     [needles |-> { << "h", "i", "g", "h", "e", "s", "t" >>, << "m", "o", "s", "t" >> },
      digits |-> FALSE, intent |-> "inventory_ranking_analysis"],
     [needles |-> { << "s", "u", "m", "m", "a", "r", "y" >>, << "o", "v", "e", "r", "v", "i", "e", "w" >> },
      digits |-> FALSE, intent |-> "comprehensive_summary"],
     [needles |-> { << "s", "p", "a", "c", "e" >> },
      digits |-> FALSE, intent |-> "space_analysis"],
     [needles |-> { << "e", "x", "p", "i", "r", "e" >> },
      digits |-> FALSE, intent |-> "expiration_check"] >>

\* six digits in a row, anywhere
AnyDigitRun(q) ==
  \E i \in 1..(Len(q) - 5) : \A k \in 0..5 : q[i + k] \in Digits

\* six or more digits in a row with no letter, digit or underscore next to them
StandaloneDigitRun(q) ==
  \E lo \in 1..Len(q), hi \in 1..Len(q) :
    /\ hi >= lo + 5
    /\ \A k \in lo..hi : q[k] \in Digits
    /\ lo > 1 => q[lo - 1] \notin WordChars
    /\ hi < Len(q) => q[hi + 1] \notin WordChars

RuleApplies(rule, q, anyRun) ==
  \/ \E w \in rule.needles : OccursIn(w, q)
  \/ rule.digits /\ (IF anyRun THEN AnyDigitRun(q) ELSE StandaloneDigitRun(q))

ClaimedIntent(q, anyRun) ==
  IF \E r \in 1..Len(ClaimedRules) : RuleApplies(ClaimedRules[r], q, anyRun)
  THEN ClaimedRules[CHOOSE r \in 1..Len(ClaimedRules) :
                      /\ RuleApplies(ClaimedRules[r], q, anyRun)
                      /\ \A r2 \in 1..(r - 1) : ~RuleApplies(ClaimedRules[r2], q, anyRun)].intent
  ELSE "general_warehouse_query"

ClaimedComplexity(q) ==
  IF \E i \in 1..Len(q) :
       \/ i + 4 <= Len(q) /\ SubSeq(q, i, i + 4) = << " ", "a", "n", "d", " " >>
       \/ i + 5 <= Len(q) /\ SubSeq(q, i, i + 5) = << " ", "t", "h", "e", "n", " " >>
  THEN "complex" ELSE "simple"

ExampleQuery == << "w", "h", "e", "r", "e", " ", "i", "s", " ", "p", "r", "o", "d", "u", "c", "t", " ", "1", "2", "6", "3", "7", "5", "5" >>

C13_FallbackTargetIsHealthy ==
  call.fn = "fallbackClassification" =>
    /\ getHealthyAgents(agents) # << >>
    /\ call.result.targetAgent = getHealthyAgents(agents)[1].agentId
    /\ ~targetUnavailable(agents, call.result.targetAgent)

\* ---- C14 ---------------------------------------------------------------
\* C14 as stated: in every lifecycle state processMessage returns a response.
C14_ProcessMessageNeverThrows ==
  call.fn = "processMessage" => call.result.kind = "response"

\* C14, amended: while the agent is running, processMessage returns a
\* structured response for every message and does not throw: when a tool
\* call fails or the handler raises, the reasoning trail ends with the error
\* note and the response has status 'error' and a message that explains;
\* while the agent is not running (before start() has finished, after
\* stop()), processMessage throws 'Location Agent is not running'.
C14_RunningAgentAlwaysResponds ==
  call.fn = "processMessage" =>
    IF call.running
    THEN /\ call.result.kind = "response"
         /\ call.result.status = (IF call.outcome = "ok" THEN "success" ELSE "error")
         /\ call.result.content # ""
         /\ call.outcome # "ok" =>
              /\ call.result.reasoning # << >>
              /\ call.result.reasoning[Len(call.result.reasoning)] = "error"
    ELSE call.result = Thrown("Location Agent is not running")

\* a tool call failed while the agent was running
C14_Witness ==
  /\ call.fn = "processMessage" /\ call.running
  /\ call.outcome = "tool-failed"
  /\ call.result.status = "error"

\* ---- C15 ---------------------------------------------------------------
\* C15: whenever the targetAgent of the classification has a healthy entry
\* in the registry, whichever agent id that is, routeToAgent calls that
\* agent's processMessage and ends without an error.
C15_EveryHealthyTargetIsDispatched ==
  (call.fn = "routeToAgent" /\ ~targetUnavailable(agents, call.target)) =>
    /\ call.result.invoked
    /\ call.result.error = ""

\* ---- C16 ---------------------------------------------------------------
\* C16: a history changes only when an exchange completes; the exchange
\* appends one user turn and then one agent turn, the history is then the
\* last 20 turns of what was appended, in the order of appending (all of
\* them while there are at most 20), and lastIntent, lastAgent and
\* lastParameters are those of the exchange's classification.
C16_HistoryIsTrailingWindow ==
  [][ /\ \A r \in 1..MaxOverlap, st \in {"success", "error"} :
           AgentResponds(r, st) =>
             LET sid == reqs[r].sessionId
                 new == conversations'[sid].conversationHistory
                 all == conversations[sid].conversationHistory
                          \o << [role |-> "user", content |-> reqs[r].query, req |-> r] >>
                          \o << [role |-> "agent", content |-> st, req |-> r] >>
                 drop == Len(all) - Len(new)
             IN /\ Len(new) = IF Len(all) > HistoryWindow THEN HistoryWindow ELSE Len(all)
                /\ \A i \in 1..Len(new) : new[i] = all[i + drop]
                /\ conversations'[sid].lastIntent = reqs[r].cls[1].intent
                /\ conversations'[sid].lastAgent = reqs[r].cls[1].targetAgent
                /\ conversations'[sid].lastParameters = reqs[r].cls[1].parameters
      /\ \A sid \in DOMAIN conversations :
           conversations'[sid] # conversations[sid] =>
             \E r \in 1..MaxOverlap, st \in {"success", "error"} :
               AgentResponds(r, st) /\ reqs[r].sessionId = sid ]_vars

\* an exchange has pushed the two oldest turns out of a full window
C16_Witness ==
  \E sid \in DOMAIN conversations :
    LET h == conversations[sid].conversationHistory IN
    /\ Len(h) = HistoryWindow
    /\ h[HistoryWindow].req # 0 /\ h[HistoryWindow - 2].req = 0
    /\ h[1] = EarlierTurns(HistoryWindow \div 2)[3]

\* ---- C17 ---------------------------------------------------------------
\* C17: getRegistryStats returns totalAgents = the number of entries,
\* healthyAgents = the number of entries whose healthy flag is true,
\* totalTools = the sum of the entries' tool counts, avgToolsPerAgent =
\* totalTools / totalAgents (0 when there is no entry) and, when there are
\* entries, lastRefresh = the latest lastHealthCheck among them; for one
\* healthy local agent with 9 tools it returns 1, 1 and 9.
C17_RegistryStats ==
  call.fn = "getRegistryStats" =>
    LET st == call.result
        n == Len(agents)
        toolsUpTo(j) == { << i, t >> \in (1..j) \X (1..Len(McpTools)) : t <= Len(agents[i].tools) }
    IN /\ st.totalAgents = n
       /\ st.healthyAgents = Cardinality({ j \in 1..n : agents[j].healthy })
       /\ st.totalTools = Cardinality(toolsUpTo(n))
       /\ st.avgToolsPerAgent.num * n = st.totalTools * st.avgToolsPerAgent.den
       /\ st.avgToolsPerAgent.den > 0
       /\ n = 0 => st.avgToolsPerAgent.num = 0
       /\ n > 0 =>
            /\ st.lastRefresh.valid
            /\ \E j \in 1..n : agents[j].lastHealthCheck = st.lastRefresh.time
            /\ \A j \in 1..n : agents[j].lastHealthCheck <= st.lastRefresh.time
       /\ (n = 1 /\ agents[1].healthy /\ ~agents[1].endpoint /\ Len(agents[1].tools) = 9)
            => st.totalAgents = 1 /\ st.healthyAgents = 1 /\ st.totalTools = 9

\* three agents, one of them unhealthy, the latest probe not the last entry's
C17_Witness ==
  /\ call.fn = "getRegistryStats"
  /\ call.result.totalAgents = MaxAgents
  /\ call.result.healthyAgents = MaxAgents - 1
  /\ call.result.totalTools > 9
  /\ call.result.lastRefresh.time > agents[MaxAgents].lastHealthCheck

\* ---- C18 ---------------------------------------------------------------
\* the text read back: an agent line is 'id: name' at the left margin, a tool
\* line is '    * name: description', and a tool line belongs to the last
\* agent line above it
IsAgentLine(l) == Len(l) = 3 /\ l[2] = ": "
IsToolLine(l) == Len(l) = 4 /\ l[1] = "    * "

AgentLinesOf(text, id) ==
  { i \in 1..Len(text) : IsAgentLine(text[i]) /\ text[i][1] = id }

ToolLinesUnder(text, i, tool) ==
  { j \in (i + 1)..Len(text) :
      /\ IsToolLine(text[j]) /\ text[j][2] = tool
      /\ \A k \in (i + 1)..j : ~IsAgentLine(text[k]) }

\* C18: the text of generatePromptContext has one agent line for every
\* healthy agent and, under it, one tool line for every tool name of that
\* agent, and no agent line for an unhealthy agent.
C18_PromptListsEachOnce ==
  call.fn = "generatePromptContext" =>
    \A j \in 1..Len(agents) :
      IF agents[j].healthy
      THEN /\ Cardinality(AgentLinesOf(call.result, agents[j].agentId)) = 1
           /\ \A i \in AgentLinesOf(call.result, agents[j].agentId),
                 t \in 1..Len(agents[j].tools) :
                Cardinality(ToolLinesUnder(call.result, i, agents[j].tools[t])) = 1
      ELSE AgentLinesOf(call.result, agents[j].agentId) = {}

\* ---- C19 ---------------------------------------------------------------
\* C19: no two entries of the registry have the same agentId, the key of an
\* entry is its agentId, and no entry has two tools of the same name.
C19_UniqueAgentIdsAndToolNames ==
  /\ \A i \in 1..Len(agents), j \in 1..Len(agents) :
       agents[i].agentId = agents[j].agentId => i = j
  /\ \A i \in 1..Len(agents) :
       /\ agents[i].key = agents[i].agentId
       /\ \A a \in 1..Len(agents[i].tools), b \in 1..Len(agents[i].tools) :
            agents[i].tools[a] = agents[i].tools[b] => a = b

\* ---- C20 ---------------------------------------------------------------
\* C20: the probes of a refresh cycle do not wait for one another: while a
\* cycle waits for the probe of one entry to end, there is no entry left in
\* the registry that this cycle has yet to probe and update, so that a probe
\* that never ends keeps no other entry from being probed in its cycle.
C20_ProbesDoNotWaitForOneAnother ==
  \A k \in 1..Len(cycles) :
    \A j \in 1..Len(agents) : j <= cycles[k].at

\* ---- C21 ---------------------------------------------------------------
\* C21: when the probe of an entry ends - healthy, unhealthy or with an
\* exception - the entry's lastHealthCheck is the time at which it ended.
C21_EveryProbeStampsLastHealthCheck ==
  [][ \A k \in 1..MaxCycles, o \in ProbeOutcomes :
        ProbeDone(k, o) =>
          \A j \in 1..Len(agents) :
            agents[j].ref = cycles[k].ref => agents'[j].lastHealthCheck = now ]_vars

\* ---- C22 ---------------------------------------------------------------
\* C22: the toolCalls of a response list every call the handler issued, the
\* calls that failed included.
C22_EveryIssuedCallInTrace ==
  (call.fn = "processWarehouseQuery" /\ call.pc = "returned") =>
    /\ Len(call.toolCalls) = Len(call.issued)
    /\ \A i \in 1..Len(call.issued) : call.toolCalls[i].tool = call.issued[i]

\* ---- C23 ---------------------------------------------------------------
\* C23: the summary handler has issued its three calls when it first
\* awaits, and has not gone on - to a summary or to an error - while one of
\* the three is still pending.
C23_SummaryWaitsForAllThree ==
  (call.fn = "processWarehouseQuery" /\ call.handler = "handleSummaryQuery") =>
    /\ SubSeq(call.issued, 1, Len(SummaryTools)) = SummaryTools
    /\ call.pc = "returned" =>
         \A i \in 1..Len(SummaryTools) : call.settled[i] # "pending"

\* ---- C24 ---------------------------------------------------------------
\* C24: when exactly one of the three calls of the summary handler has
\* failed and the other two have delivered their summaries, the response is
\* a success with the sections of these two.
C24_SummaryToleratesOneFailure ==
  ( /\ call.fn = "processWarehouseQuery" /\ call.handler = "handleSummaryQuery"
    /\ Cardinality({ i \in 1..Len(SummaryTools) : call.settled[i] = "failed" }) = 1
    /\ Cardinality({ i \in 1..Len(SummaryTools) : call.settled[i] = "ok" }) = 2 ) =>
    /\ call.pc = "returned" /\ call.status = "success"
    /\ call.sections =
         SelectSeq(SummaryTools,
                   LAMBDA t : \E i \in 1..Len(SummaryTools) :
                                call.issued[i] = t /\ call.settled[i] = "ok")

\* ---- C25 ---------------------------------------------------------------
\* the planner's rules in the order of the claim: the words that select the
\* rule, and the words that keep it from applying
PlanRules ==
  << [keywords |-> { << "h", "i", "g", "h", "e", "s", "t" >>, << "m", "o", "s", "t" >>, << "b", "e", "s", "t" >>, << "t", "o", "p" >>, << "l", "o", "w", "e", "s", "t" >>, << "l", "e", "a", "s", "t" >> },
      unless |-> {  },
      handler |-> "handleRankingQuery"],
     [keywords |-> { << "c", "o", "m", "p", "a", "r", "e" >>, << "d", "i", "f", "f", "e", "r", "e", "n", "c", "e" >>, << "v", "s" >> },
      unless |-> {  },
      handler |-> "handleComparisonQuery"],
     [keywords |-> { << "h", "o", "w", " ", "m", "a", "n", "y" >>, << "c", "o", "u", "n", "t" >>, << "t", "o", "t", "a", "l", " ", "n", "u", "m", "b", "e", "r" >> },
      unless |-> { << "e", "x", "p", "l", "a", "i", "n" >> },
      handler |-> "handleCountQuery"],
     [keywords |-> { << "w", "h", "e", "r", "e", " ", "i", "s" >>, << "f", "i", "n", "d" >>, << "l", "o", "c", "a", "t", "e" >> },
      unless |-> {  },
      handler |-> "handleLocationQuery"],
     [keywords |-> { << "i", "n", " ", "a", "r", "e", "a" >>, << "f", "r", "o", "z", "e", "n" >>, << "d", "r", "y" >>, << "r", "e", "f", "r", "i", "g", "e", "r", "a", "t", "e", "d" >> },
      unless |-> {  },
      handler |-> "handleAreaQuery"],
     [keywords |-> { << "s", "u", "m", "m", "a", "r", "y" >>, << "o", "v", "e", "r", "v", "i", "e", "w" >>, << "r", "e", "p", "o", "r", "t" >> },
      unless |-> {  },
      handler |-> "handleSummaryQuery"],
     [keywords |-> { << "e", "x", "p", "l", "a", "i", "n" >>, << "h", "o", "w", " ", "d", "o", " ", "y", "o", "u" >>, << "w", "h", "a", "t", " ", "t", "o", "o", "l", "s" >> },
      unless |-> { << "h", "o", "w", " ", "m", "a", "n", "y" >> },
      handler |-> "handleExplanationQuery"] >>

PlanRuleApplies(rule, qy, guarded) ==
  /\ \E w \in rule.keywords : OccursIn(w, qy)
  /\ guarded => ~\E w \in rule.unless : OccursIn(w, qy)

FirstPlanRule(qy, guarded) ==
  IF \E r \in 1..Len(PlanRules) : PlanRuleApplies(PlanRules[r], qy, guarded)
  THEN PlanRules[CHOOSE r \in 1..Len(PlanRules) :
                   /\ PlanRuleApplies(PlanRules[r], qy, guarded)
                   /\ \A r2 \in 1..(r - 1) : ~PlanRuleApplies(PlanRules[r2], qy, guarded)].handler
  ELSE "handleFlexibleQuery"

StandaloneNumber(qy) ==
  \E lo \in 1..Len(qy), hi \in 1..Len(qy) :
    /\ hi >= lo + 5
    /\ \A k \in lo..hi : qy[k] \in Digits
    /\ lo > 1 => qy[lo - 1] \notin WordChars
    /\ hi < Len(qy) => qy[hi + 1] \notin WordChars

PlanExamples ==
  { << << "c", "o", "m", "p", "a", "r", "e", " ", "f", "r", "o", "z", "e", "n", " ", "v", "s", " ", "d", "r", "y", " ", "a", "r", "e", "a", "s" >>, "handleComparisonQuery" >>,
    << << "g", "i", "v", "e", " ", "m", "e", " ", "a", " ", "w", "a", "r", "e", "h", "o", "u", "s", "e", " ", "s", "u", "m", "m", "a", "r", "y" >>, "handleSummaryQuery" >>,
    << << "h", "o", "w", " ", "d", "o", " ", "y", "o", "u", " ", "g", "e", "t", " ", "t", "h", "e", "s", "e", " ", "n", "u", "m", "b", "e", "r", "s", "?" >>, "handleExplanationQuery" >>,
    << << "W", "h", "a", "t", " ", "p", "r", "o", "d", "u", "c", "t", " ", "h", "a", "s", " ", "t", "h", "e", " ", "h", "i", "g", "h", "e", "s", "t", " ", "n", "u", "m", "b", "e", "r", " ", "o", "f", " ", "p", "a", "l", "l", "e", "t", "s", "?" >>, "handleRankingQuery" >> }

\* C25 as stated: the handler is that of the first rule one of whose words
\* occurs in the query, and a query with none of the words gets the guidance
\* text.
C25_FirstKeywordRuleOrGuidance ==
  (call.fn = "processMessage" /\ call.running /\ call.outcome = "ok") =>
    /\ call.result.handler = FirstPlanRule(call.query, FALSE)
    /\ call.result.handler = "handleFlexibleQuery" => call.result.content = "guidance"

\* C25, amended: one handler runs, that of the first rule that applies, in
\* the order ranking, comparison, count, location, area, summary,
\* explanation, catch-all, where the count rule does not apply to a query
\* with 'explain' and the explanation rule does not apply to a query with
\* 'how many'; the catch-all answers a query that has 'product' and a
\* standalone number of six or more digits with a product search and every
\* other query with the guidance text; the four test queries get the
\* comparison, summary, explanation and ranking handlers.
C25_FirstApplicableRule ==
  (call.fn = "processMessage" /\ call.running /\ call.outcome = "ok") =>
    /\ call.result.handler = FirstPlanRule(call.query, TRUE)
    /\ call.result.handler = "handleFlexibleQuery" =>
         call.result.content =
           IF OccursIn(<< "p", "r", "o", "d", "u", "c", "t" >>, call.query)
              /\ StandaloneNumber(call.query)
           THEN "product search" ELSE "guidance"
    /\ \A ex \in PlanExamples : call.query = ex[1] => call.result.handler = ex[2]

\* a query with words of the count rule and of the explanation rule went to
\* the explanation handler
C25_Witness ==
  /\ call.fn = "processMessage" /\ call.running /\ call.outcome = "ok"
  /\ PlanRuleApplies(PlanRules[3], call.query, FALSE)
  /\ call.result.handler = "handleExplanationQuery"

\* ---- C26 ---------------------------------------------------------------
\* C26: when stop() returns the registry is empty and no interval is left
\* running; a start() that was waiting for a manifest when stop() returned
\* adds no entry and sets no interval afterwards, unless start() has been
\* called again; and a refresh cycle that was in flight adds no entry.
C26_StoppedStaysStopped ==
  [][ /\ Stop => (agents' = << >> /\ timers' = {})
      /\ \A p \in 1..MaxStarts :
           (p \in 1..Len(starts) /\ starts[p].stopped
              /\ (StartFetched(p) \/ StartFinish(p)))
           => (agents' = agents /\ timers' = timers)
      /\ \A k \in 1..MaxCycles, o \in ProbeOutcomes :
           (ProbeDone(k, o) /\ agents = << >>) => agents' = << >> ]_vars

\* ---- C27 ---------------------------------------------------------------
\* C27: when a probe ends after a probe of the same entry that was started
\* later has ended, it changes neither the healthy flag nor lastHealthCheck
\* of the entry.
C27_OlderProbeNeverOverwrites ==
  [][ \A k \in 1..MaxTicks, o \in ProbeOutcomes :
        (ProbeDone(k, o) /\ cycles[k].stale) =>
          \A j \in 1..Len(agents) :
            agents[j].ref = cycles[k].ref =>
              /\ agents'[j].healthy = agents[j].healthy
              /\ agents'[j].lastHealthCheck = agents[j].lastHealthCheck ]_vars

\* ---- C28 ---------------------------------------------------------------
\* the agent turn b is the response to the user turn a: both were pushed by
\* the same exchange (an earlier exchange paired query 1 with "success" and
\* query 2 with "error")
C28_IsPair(a, b) ==
  /\ a.role = "user" /\ b.role = "agent"
  /\ a.req = b.req
  /\ IF a.req = 0
     THEN (a.content = 1) <=> (b.content = "success")
     ELSE /\ a.req \in 1..Len(reqs)
          /\ a.content = reqs[a.req].query

\* C28: whatever the interleaving of the processQuery calls of a session,
\* its history is a sequence of (user turn, agent turn) pairs, each agent
\* turn being the response to the user turn right before it: the turns of
\* two requests are never interleaved, and the 20-turn window never splits
\* a pair.
C28_HistoryIsPairs ==
  \A sid \in DOMAIN conversations :
    LET h == conversations[sid].conversationHistory IN
    /\ Len(h) % 2 = 0
    /\ \A i \in 1..Len(h) : i % 2 = 1 => C28_IsPair(h[i], h[i + 1])

\* two requests of one session overlapped, the later one completed first,
\* and their four turns pushed the history of a full window over 20 turns
C28_Witness ==
  \E sid \in DOMAIN conversations :
    LET h == conversations[sid].conversationHistory IN
    /\ Len(h) = HistoryWindow
    /\ h[HistoryWindow - 3].req = 2 /\ h[HistoryWindow - 1].req = 1
    /\ h[1] = EarlierTurns(HistoryWindow \div 2)[5]

\* ---- C29 ---------------------------------------------------------------
\* the entry was registered from the manifest of a local instance (the
\* configurations give an endpoint to remote agents only)
C29_IsLocal(e) == ~e.endpoint

\* C29: a registered local agent is marked unhealthy by the refresh only
\* when a probe of it has ended and has not reported healthy; whatever the
\* configuration (the configured agentId may differ from the agentId of
\* the manifest), an agent whose healthCheck reports healthy at every probe
\* is never marked unhealthy.
C29_HealthyLocalStaysHealthy ==
  [][ \A j \in 1..Len(agents), i \in 1..Len(agents') :
        ( /\ C29_IsLocal(agents[j]) /\ agents[j].healthy
          /\ agents'[i].ref = agents[j].ref /\ ~agents'[i].healthy )
        => \E k \in 1..Len(cycles), o \in ProbeOutcomes \ {"healthy"} :
             cycles[k].ref = agents[j].ref /\ ProbeDone(k, o) ]_vars

\* ---- C30 ---------------------------------------------------------------
\* the handler that answers an intent of the rule-based classification
C30_HandlerOf ==
  [product_location_search |-> "handleLocationQuery",
   inventory_count_query |-> "handleCountQuery",
   inventory_ranking_analysis |-> "handleRankingQuery",
   comprehensive_summary |-> "handleSummaryQuery"]

\* C30: for every query the handler the location agent's planner selects
\* corresponds to the intent the rule-based classification gives the same
\* query: the intent is one of the four paired intents exactly when the
\* handler is one of the four paired handlers, and then the handler is the
\* one paired with the intent.
C30_PlannerAgreesWithFallback ==
  call.fn = "fallbackClassification" =>
    /\ (call.result.intent \in DOMAIN C30_HandlerOf)
         <=> (\E i \in DOMAIN C30_HandlerOf : C30_HandlerOf[i] = call.handler)
    /\ call.result.intent \in DOMAIN C30_HandlerOf
         => call.handler = C30_HandlerOf[call.result.intent]

\* ---- C6 ----------------------------------------------------------------
\* C6: when a start() that ran on an empty registry, with no other start()
\* or stop() in between, has finished discovery and is about to return, it
\* went through the whole configuration, the registry holds exactly the
\* agentIds of the manifests that were obtained and are of the required
\* shape, and no start() was ever left by an exception.
Registered(seen) == { seen[i] : i \in 1..Len(seen) } \ {"-"}

C6_StartRegistersExactlyValid ==
  \A p \in 1..Len(starts) :
    /\ starts[p].pc # "threw"
    /\ (starts[p].pc = "settimer" /\ starts[p].alone) =>
         /\ Len(starts[p].seen) = Len(config)
         /\ Keys(agents) = Registered(starts[p].seen)

\* the first configured agent failed, the second one is registered
C6_Witness ==
  \E p \in 1..Len(starts) :
    /\ starts[p].pc = "settimer" /\ starts[p].alone
    /\ starts[p].seen[1] = "-" /\ starts[p].seen[2] # "-"
    /\ Keys(agents) = {starts[p].seen[2]}

\* ---- C7 ----------------------------------------------------------------
\* C7: a probe that ends removes no entry; it leaves the probed entry's
\* healthy flag true if it reported healthy and false if it reported
\* anything else or raised - whatever the flag was before.
C7_ProbeSetsHealthyKeepsEntry ==
  [][ \A k \in 1..MaxCycles, o \in ProbeOutcomes :
        ProbeDone(k, o) =>
          /\ [j \in 1..Len(agents') |-> agents'[j].key]
               = [j \in 1..Len(agents) |-> agents[j].key]
          /\ \A j \in 1..Len(agents) :
               agents[j].ref = cycles[k].ref =>
                 agents'[j].healthy = (o = "healthy") ]_vars

\* an entry that a probe had marked unhealthy is healthy again
C7_Witness ==
  /\ recovered
  /\ \E j \in 1..Len(agents) : agents[j].healthy /\ agents[j].status = "healthy"

\* ---- C8 ----------------------------------------------------------------
\* C8: when the probe of A ends in failure (unhealthy or an exception), every
\* other entry B is, after that step, exactly what it would be had A's probe
\* reported healthy, and the cycle goes on to the same next entry.
C8_FailureTouchesOnlyItsEntry ==
  [][ \A k \in 1..MaxCycles, o \in {"unhealthy", "threw"} :
        ProbeDone(k, o) =>
          LET ok == ProbeResult(cycles[k], "healthy") IN
          /\ \A j \in 1..Len(agents) :
               agents[j].ref # cycles[k].ref => agents'[j] = ok.agents[j]
          /\ ProbeResult(cycles[k], o).at = ok.at
          /\ ProbeResult(cycles[k], o).ref = ok.ref ]_vars

\* A's probe failed in a cycle that has gone on to B, and B is still healthy
C8_Witness ==
  /\ Len(agents) = 2
  /\ agents[1].status = "healthy" /\ ~agents[1].healthy
  /\ agents[2].healthy
  /\ \E k \in 1..Len(cycles) : cycles[k].at = 2 /\ cycles[k].ref = agents[2].ref

\* ---- C9 ----------------------------------------------------------------
\* C9: stop() can be called in every state (before any start(), after a
\* stop()); each call leaves the Map empty, so that getAllAgents() is empty
\* and getAgent(id) is undefined for every id, and leaves the interval that
\* refreshTimer names cancelled.
C9_StopClearsAndIsIdempotent ==
  [][ Stop =>
        /\ getAllAgents(agents') = << >>
        /\ \A id \in AgentIds : getAgent(agents', id) = << >>
        /\ refreshTimer' \notin timers' ]_vars

\* a second stop() after a start() has run
C9_Witness ==
  stops = 2 /\ nStarts > 0 /\ agents = << >> /\ refreshTimer # 0 /\ timers = {}

\* ---- C10 ---------------------------------------------------------------
\* C10: changing an array that a read returned, or a field of an entry in
\* it, changes the result of no later read of the registry.
C10_ReadsAreCopies ==
  [][ ((\E k \in 1..MaxReads : MutateList(k))
       \/ (\E k \in 1..MaxReads, j \in 1..(2 * MaxStarts) : MutateEntry(k, j))) =>
        /\ getAllAgents(agents') = getAllAgents(agents)
        /\ getHealthyAgents(agents') = getHealthyAgents(agents)
        /\ \A id \in AgentIds : getAgent(agents', id) = getAgent(agents, id) ]_vars

====
